---- MODULE Spec2Model ----
(***************************************************************************)
(* EduStream: public sharing, quiz grading and assignment intake           *)
(* (app/api/v1/endpoints/share.py) over the relational store               *)
(* (app/models/models.py).                                                 *)
(*                                                                         *)
(* Text is a sequence of one-character strings, so that strip(), lower(),  *)
(* slicing and pattern matching are computed, not assumed.  An optional    *)
(* value (Python None / a nullable column) is a sequence of length <= 1:   *)
(* None is <<>>, a present value v is <<v>>.                                *)
(***************************************************************************)
EXTENDS Integers, Sequences, FiniteSets, TLC

(* ------------------------------ bounds --------------------------------- *)

\* number of distinct outcomes of the random source that are explored
NumSeeds == 2

\* rows of public_links that are explored
MaxLinks == 2

\* the clock runs 0..MaxTime
MaxTime == 1

\* rows of student_results a run inserts at most
MaxResults == 1

\* rows of ocr_results a run inserts at most
MaxUploads == 2

\* rows of ocr_results a run of the intake specification inserts at most
MaxIntake == 1

\* quiz submissions a run with concurrent workers accepts at most
MaxSubmits == 2

\* rows of quizzes a run of the quiz specification holds at most
MaxQuizzes == 3

(* ------------------------- program constants --------------------------- *)

\* range(8) in generate_short_code
CodeLen == 8

\* range(10) in create_share_link
MaxAttempts == 10

\* {6,32} in validate_short_code_or_400
MinCodeLen == 6

MaxCodeLen == 32

\* settings.MAX_UPLOAD_SIZE, in bytes
MAX_UPLOAD_SIZE == 10485760

\* max_score of the auto-grader call
MaxScore == 20

(* ------------------------------- text ---------------------------------- *)

None == <<>>

Some(v) == <<v>>

ascii_lowercase ==
  << "a","b","c","d","e","f","g","h","i","j","k","l","m",
     "n","o","p","q","r","s","t","u","v","w","x","y","z" >>

ascii_uppercase ==
  << "A","B","C","D","E","F","G","H","I","J","K","L","M",
     "N","O","P","Q","R","S","T","U","V","W","X","Y","Z" >>

digits == << "0","1","2","3","4","5","6","7","8","9" >>

ascii_letters == ascii_lowercase \o ascii_uppercase

Range(s) == { s[i] : i \in DOMAIN s }

UpperSet == Range(ascii_uppercase)

\* the lower-case letter of each upper-case letter
LowerOf ==
  [ c \in UpperSet |->
      ascii_lowercase[CHOOSE i \in DOMAIN ascii_uppercase : ascii_uppercase[i] = c] ]

\* str.lower() on one character
LowerChar(c) == IF c \in UpperSet THEN LowerOf[c] ELSE c

\* str.lower()
Lower(s) == [i \in DOMAIN s |-> LowerChar(s[i])]

IsSpace(c) == c \in {" ", "\t", "\n"}

RECURSIVE LStrip(_)
LStrip(s) == IF s # <<>> /\ IsSpace(Head(s)) THEN LStrip(Tail(s)) ELSE s

RECURSIVE RStrip(_)
RStrip(s) ==
  IF s # <<>> /\ IsSpace(s[Len(s)]) THEN RStrip(SubSeq(s, 1, Len(s) - 1)) ELSE s

\* str.strip()
Strip(s) == RStrip(LStrip(s))

\* the greatest element of a non-empty set of numbers
Max(S) == CHOOSE m \in S : \A n \in S : n <= m

\* s[:n]
Prefix(s, n) == SubSeq(s, 1, IF Len(s) < n THEN Len(s) ELSE n)

\* pattern occurs in text (SQL LIKE '%pattern%' without wildcards in pattern)
Contains(text, pattern) ==
  \E i \in 0..(Len(text) - Len(pattern)) :
    SubSeq(text, i + 1, i + Len(pattern)) = pattern

\* SQL ILIKE '%pattern%': the same match, letter case ignored
ILikeContains(text, pattern) == Contains(Lower(text), Lower(pattern))

(* ------------------------------ identifiers ---------------------------- *)

\* str(uuid): the text form of row id n; a text that is no UUID is <<"raw", k>>
UuidStr(n) == <<"uuid", n>>

\* uuid.UUID(str(x)) succeeds
IsUuid(x) == x[1] = "uuid"

\* the value uuid.UUID(str(x)) returns
UuidOf(x) == x[2]

Teachers == {"t1", "t2"}

\* worker slots; requests served one at a time use the first
Procs == {"p1", "p2"}

SeqProcs == {"p1"}

\* swagger_schemas.ResourceType
ResourceType == {"quiz", "ocr_result", "material"}

(* ------------------------------- state --------------------------------- *)

VARIABLES
  now,            \* datetime.utcnow()
  materials,      \* table materials
  quizzes,        \* table quizzes
  links,          \* table public_links, in insertion order
  studentResults, \* table student_results, in insertion order
  ocrResults,     \* table ocr_results, in insertion order
  uploadDir,      \* names of the files in settings.UPLOAD_DIR
  users,          \* table users, by id
  cr,             \* create_share_link requests in flight, one slot per worker
  lastCreate,     \* the request body and outcome of the latest 201 of create_share_link
  resp            \* the response to the latest request, none while it is served

vars ==
  << now, materials, quizzes, links, studentResults, ocrResults, uploadDir,
     users, cr, lastCreate, resp >>

store == << materials, quizzes, links, studentResults, ocrResults, uploadDir >>

(* --------------------------- password hashing -------------------------- *)

\* app.core.security.get_password_hash
get_password_hash(password) == <<"hash", password>>

\* app.core.security.verify_password
verify_password(password, hashed) == hashed = get_password_hash(password)

\* Python truthiness of an optional string
Truthy(opt) == opt # None /\ opt[1] # ""

(* ---------------------------- short codes ------------------------------ *)

\* string.ascii_letters + string.digits
alphabet == ascii_letters \o digits

\* secrets.choice(alphabet) for position i of the draw that the random source
\* makes under outcome `seed`
SecretsChoice(seed, i) == alphabet[(((seed - 1) * 26 + i) % Len(alphabet)) + 1]

generate_short_code(seed) == [i \in 1..CodeLen |-> SecretsChoice(seed, i)]

\* the character class [A-Za-z0-9_-]
ShortCodeChars == Range(alphabet) \cup {"_", "-"}

\* a pattern without the lower bound on the length
FullMatchAnyLength(code) ==
  /\ Len(code) <= MaxCodeLen
  /\ \A i \in DOMAIN code : code[i] \in ShortCodeChars

\* re.fullmatch(r"[A-Za-z0-9_-]{6,32}", code)
FullMatchShortCode(code) ==
  /\ Len(code) >= MinCodeLen
  /\ Len(code) <= MaxCodeLen
  /\ \A i \in DOMAIN code : code[i] \in ShortCodeChars

\* validate_short_code_or_400: <<ok, code>>
validate_short_code_or_400(short_code) ==
  LET code == Strip(short_code)
  IN  << FullMatchShortCode(code), code >>

\* a lookup that never finds a row
FirstLinkBlind(code) == None

\* db.query(PublicLink).filter(PublicLink.short_code == code).first(): a
\* sequence of length <= 1
FirstLink(code) ==
  LET hits == { i \in DOMAIN links : links[i].short_code = code }
  IN  IF hits = {} THEN None
      ELSE Some(links[CHOOSE i \in hits : \A j \in hits : i <= j])

(* ------------------------------- quizzes ------------------------------- *)

\* dict.get(key) of a JSON object whose values are text: a missing key and
\* None both read as the empty text under Python's `or`
Get(q, key) == IF key \in DOMAIN q THEN q[key] ELSE <<>>

\* isinstance(q, dict): an entry that is no JSON object is [nondict |-> v]
IsDict(q) == "nondict" \notin DOMAIN q

\* a or b on text
Or(a, b) == IF a # <<>> THEN a ELSE b

\* the alias table of _normalize_question_type
QuestionTypeAliases ==
  { << <<"m", "c", "q">>, "mcq" >>, << <<"m", "u", "l", "t", "i", "p", "l", "e", "_", "c", "h", "o", "i", "c", "e">>, "mcq" >>,
    << <<"m", "u", "l", "t", "i", "p", "l", "e", "-", "c", "h", "o", "i", "c", "e">>, "mcq" >>, << <<"c", "h", "o", "i", "c", "e">>, "mcq" >>,
    << <<"o", "p", "e", "n">>, "open" >>, << <<"o", "p", "e", "n", "-", "e", "n", "d", "e", "d">>, "open" >>,
    << <<"o", "p", "e", "n", "_", "e", "n", "d", "e", "d">>, "open" >>, << <<"b", "o", "o", "l", "e", "a", "n">>, "boolean" >>,
    << <<"t", "r", "u", "e", "_", "f", "a", "l", "s", "e">>, "boolean" >>, << <<"t", "r", "u", "e", "-", "f", "a", "l", "s", "e">>, "boolean" >> }

\* the text of a QuestionType value
QuestionTypeText(v) ==
  CASE v = "mcq" -> <<"m", "c", "q">> [] v = "open" -> <<"o", "p", "e", "n">> [] v = "boolean" -> <<"b", "o", "o", "l", "e", "a", "n">>

_normalize_question_type(raw_type) ==
  LET value == Lower(Strip(Or(raw_type, <<"m", "c", "q">>)))
      hits  == { a \in QuestionTypeAliases : a[1] = value }
  IN  IF hits = {} THEN "mcq" ELSE (CHOOSE a \in hits : TRUE)[2]

\* str(question.get("type", "mcq"))
TypeOr(q, fallback) == IF "type" \in DOMAIN q THEN q.type ELSE fallback

\* one entry of _normalize_questions; fresh is the text of the uuid4 drawn
\* when the entry carries no id
NormalizeQuestion(question, fresh) ==
  [ id            |-> Or(Get(question, "id"), fresh),
    type          |-> QuestionTypeText(_normalize_question_type(TypeOr(question, <<"m", "c", "q">>))),
    text          |-> Strip(Or(Get(question, "text"), Get(question, "question"))),
    options       |-> IF "options" \in DOMAIN question THEN question.options ELSE <<>>,
    correctAnswer |-> Strip(Or(Get(question, "correctAnswer"), Get(question, "correct_answer"))),
    explanation   |-> Get(question, "explanation") ]

\* the entries _normalize_questions keeps
KeepsQuestion(question) ==
  /\ IsDict(question)
  /\ Strip(Or(Get(question, "text"), Get(question, "question"))) # <<>>
  /\ Strip(Or(Get(question, "correctAnswer"), Get(question, "correct_answer"))) # <<>>

RECURSIVE _normalize_questions(_, _)
_normalize_questions(incoming, fresh) ==
  IF incoming = <<>> THEN <<>>
  ELSE IF KeepsQuestion(Head(incoming))
       THEN << NormalizeQuestion(Head(incoming), fresh) >>
            \o _normalize_questions(Tail(incoming), fresh)
       ELSE _normalize_questions(Tail(incoming), fresh)

\* the text of the uuid4 drawn for an entry without id
FreshId == <<"f", "r", "e", "s", "h", "-", "u", "u", "i", "d">>

\* the questions create_quiz_from_draft stores for a draft
StoredDraft(draft) == _normalize_questions(draft, FreshId)

\* decimal text of a number below 100
TwoDigits(i) == << digits[(i \div 10) + 1], digits[(i % 10) + 1] >>

\* draft of the scenario quiz: capital of France, and the answer 42; with an
\* entry without answer and an entry that is no object, which are dropped
ParisDraft ==
  << [ id |-> <<"q", "1">>, type |-> <<"O", "p", "e", "n">>, text |-> <<"C", "a", "p", "i", "t", "a", "l", " ", "o", "f", " ", "F", "r", "a", "n", "c", "e", "?">>,
       correctAnswer |-> <<"P", "a", "r", "i", "s">>, explanation |-> <<"I", "t", " ", "i", "s", " ", "P", "a", "r", "i", "s">> ],
     [ id |-> <<"q", "x">>, text |-> <<"N", "o", " ", "a", "n", "s", "w", "e", "r">>, correctAnswer |-> <<" ", " ">> ],
     [ nondict |-> <<"j", "u", "n", "k">> ],
     [ id |-> <<"q", "2">>, type |-> <<"m", "c", "q">>, question |-> <<"6", " ", "x", " ", "7", "?">>,
       options |-> << <<"4", "1">>, <<"4", "2">> >>, correct_answer |-> <<" ", "4", "2", " ">>,
       explanation |-> <<"s", "i", "x", " ", "t", "i", "m", "e", "s", " ", "s", "e", "v", "e", "n">> ] >>

\* draft of n well-formed questions, each answered "yes"
SizedDraft(n) ==
  [ i \in 1..n |->
      [ id |-> <<"g">> \o TwoDigits(i), type |-> <<"b", "o", "o", "l", "e", "a", "n">>,
        text |-> <<"T">> \o TwoDigits(i), options |-> << <<"y", "e", "s">>, <<"n", "o">> >>,
        correctAnswer |-> <<"Y", "e", "s">>, explanation |-> <<"b", "e", "c", "a", "u", "s", "e">> ] ]

\* row of table quizzes
QuizRow(id, material_id, title, questions) ==
  [ id |-> id, material_id |-> material_id, title |-> title, questions |-> questions ]

\* row of table materials
MaterialRow(id, user_id, course_id, title, content) ==
  [ id |-> id, user_id |-> user_id, course_id |-> course_id, title |-> title,
    summary |-> <<>>, content |-> content ]

(* ------------------------------ responses ------------------------------ *)

\* an HTTP response: the handler, the status code, the request it answers
\* and the JSON body (a record; the error detail for a 4xx/5xx)
Response(op, status, req, body) ==
  [ op |-> op, status |-> status, req |-> req, body |-> body ]

Detail(text) == [ detail |-> text ]

NoResponse == Response("none", 0, [ none |-> TRUE ], [ none |-> TRUE ])

(* -------------------------- create_share_link -------------------------- *)

\* ShareConfig(**payload): pydantic keeps the declared fields, fills the
\* defaults of absent ones and ignores every other key of the body
ShareConfig(payload) ==
  [ resourceId   |-> payload.resourceId,
    resourceType |-> payload.resourceType,
    viewOnly     |-> IF "viewOnly" \in DOMAIN payload THEN payload.viewOnly ELSE Some(TRUE),
    allowCopy    |-> IF "allowCopy" \in DOMAIN payload THEN payload.allowCopy ELSE Some(FALSE),
    password     |-> IF "password" \in DOMAIN payload THEN payload.password ELSE None ]

\* hasattr(config, name)
HasAttr(config, name) == name \in DOMAIN config

\* the quiz the ownership query of create_share_link finds
OwnQuizExists(user, quiz_uuid) ==
  \E q \in quizzes : \E m \in materials :
    /\ q.material_id = m.id
    /\ q.id = quiz_uuid
    /\ m.user_id = user

\* the material the ownership query of create_share_link finds
OwnMaterialExists(user, material_uuid) ==
  \E m \in materials : m.id = material_uuid /\ m.user_id = user

\* "Ensure teacher can only share own resources": the status the check
\* raises, 0 when it lets the request through
ShareOwnershipCheck(user, config) ==
  IF config.resourceType = "quiz"
  THEN IF ~IsUuid(config.resourceId) THEN 400
       ELSE IF ~OwnQuizExists(user, UuidOf(config.resourceId)) THEN 404
       ELSE 0
  ELSE IF config.resourceType = "material"
  THEN IF ~IsUuid(config.resourceId) THEN 400
       ELSE IF ~OwnMaterialExists(user, UuidOf(config.resourceId)) THEN 404
       ELSE 0
  ELSE 0

IdleCreate ==
  [ pc |-> "idle", user |-> "t1", payload |-> [ none |-> TRUE ], attempt |-> 0,
    short_code |-> <<>> ]

AllIdle == \A p \in Procs : cr[p].pc = "idle"

\* row of table public_links
PublicLink(user_id, resource_id, resource_type, short_code, view_only, allow_copy, password, expires_at) ==
  [ user_id |-> user_id, resource_id |-> resource_id, resource_type |-> resource_type,
    short_code |-> short_code, view_only |-> view_only, allow_copy |-> allow_copy,
    password |-> password, expires_at |-> expires_at ]

\* the row create_share_link builds
NewPublicLink(user, config, short_code) ==
  PublicLink(
    user, config.resourceId, config.resourceType, short_code,
    IF config.viewOnly # None THEN config.viewOnly[1] ELSE TRUE,
    IF config.allowCopy # None THEN config.allowCopy[1] ELSE FALSE,
    IF Truthy(config.password) THEN Some(get_password_hash(config.password[1])) ELSE None,
    IF HasAttr(config, "expiresAt") THEN config.expiresAt ELSE None)

\* url = f"{base_url}/#/shared/{short_code}", without the base
ShareUrl(short_code) == <<"/", "#", "/", "s", "h", "a", "r", "e", "d", "/">> \o short_code

\* what a response to create_share_link records of its request
CreateReq(user, payload) ==
  [ user |-> user, resourceType |-> payload.resourceType,
    resourceId |-> payload.resourceId ]

\* create_share_link up to the code loop: request validation and the
\* ownership check
CreateBeginOp(p, user, payload) ==
  /\ cr[p].pc = "idle"
  /\ Len(links) < MaxLinks
  /\ IF payload.resourceType \notin ResourceType
     THEN /\ resp' = Response("create", 422, CreateReq(user, payload),
                              Detail("validation error"))
          /\ UNCHANGED cr
     ELSE LET config == ShareConfig(payload)
              check  == ShareOwnershipCheck(user, config)
          IN  IF check # 0
              THEN /\ resp' = Response("create", check,
                                       CreateReq(user, payload),
                                       Detail(IF check = 400 THEN "Invalid id" ELSE "not found"))
                   /\ UNCHANGED cr
              ELSE /\ cr' = [cr EXCEPT ![p] =
                               [ pc |-> "draw", user |-> user, payload |-> payload,
                                 attempt |-> 0, short_code |-> <<>> ]]
                   /\ resp' = NoResponse
  /\ UNCHANGED << now, users, store, lastCreate >>

\* requests are served one at a time
CreateBegin(p, user, payload) == AllIdle /\ CreateBeginOp(p, user, payload)

\* one iteration of `for _ in range(10)`: draw a candidate, look it up
CreateDraw(p, seed) ==
  /\ cr[p].pc = "draw"
  /\ LET candidate == generate_short_code(seed)
         exists    == FirstLink(candidate) # None
     IN  IF ~exists
         THEN /\ cr' = [cr EXCEPT ![p].pc = "insert", ![p].short_code = candidate]
              /\ UNCHANGED resp
         ELSE IF cr[p].attempt + 1 < MaxAttempts
         THEN /\ cr' = [cr EXCEPT ![p].attempt = @ + 1]
              /\ UNCHANGED resp
         ELSE /\ cr' = [cr EXCEPT ![p] = IdleCreate]
              /\ resp' = Response("create", 500,
                                  CreateReq(cr[p].user, cr[p].payload),
                                  Detail("Failed to generate unique share code"))
  /\ UNCHANGED << now, users, store, lastCreate >>

\* an insert into a table without the UNIQUE index on short_code
CreateInsertUnchecked(p) ==
  /\ cr[p].pc = "insert"
  /\ links' = Append(links, NewPublicLink(cr[p].user, ShareConfig(cr[p].payload),
                                          cr[p].short_code))
  /\ resp' = Response("create", 201, CreateReq(cr[p].user, cr[p].payload),
                      [ url |-> ShareUrl(cr[p].short_code) ])
  /\ lastCreate' = [ short_code |-> cr[p].short_code, expiresAt |-> None ]
  /\ cr' = [cr EXCEPT ![p] = IdleCreate]
  /\ UNCHANGED << now, users, materials, quizzes, studentResults, ocrResults, uploadDir >>

\* db.add(public_link); db.commit(): the UNIQUE index on short_code refuses a
\* second row with the same code, and the request then ends in a 500
CreateInsert(p) ==
  /\ cr[p].pc = "insert"
  /\ LET config == ShareConfig(cr[p].payload)
         row    == NewPublicLink(cr[p].user, config, cr[p].short_code)
         req    == CreateReq(cr[p].user, cr[p].payload)
     IN  IF FirstLink(row.short_code) # None
         THEN /\ resp' = Response("create", 500, req, Detail("IntegrityError"))
              /\ UNCHANGED << links, lastCreate >>
         ELSE /\ links' = Append(links, row)
              /\ resp' = Response("create", 201, req, [ url |-> ShareUrl(row.short_code) ])
              /\ lastCreate' =
                   [ short_code |-> row.short_code,
                     expiresAt |-> IF "expiresAt" \in DOMAIN cr[p].payload
                                   THEN cr[p].payload.expiresAt ELSE None ]
  /\ cr' = [cr EXCEPT ![p] = IdleCreate]
  /\ UNCHANGED << now, users, materials, quizzes, studentResults, ocrResults, uploadDir >>

(* ------------------------- get_shared_resource ------------------------- *)

\* an expiry that is looked at only when the link has no password
ExpiredIfOpen(link) ==
  link.password = None /\ link.expires_at # None /\ link.expires_at[1] < now

\* link.expires_at and link.expires_at < datetime.utcnow()
Expired(link) == link.expires_at # None /\ link.expires_at[1] < now

\* a gate that only refuses a supplied password that does not verify
PasswordRefusedLax(link, password) ==
  /\ link.password # None
  /\ Truthy(password)
  /\ ~verify_password(password[1], link.password[1])

\* the password gate of get_shared_resource: TRUE when the request is refused
PasswordRefused(link, password) ==
  /\ link.password # None
  /\ \/ ~Truthy(password)
     \/ ~verify_password(password[1], link.password[1])

\* db.query(QuizModel).filter(QuizModel.id == quiz_uuid).first()
FirstQuiz(quiz_uuid) ==
  LET hits == { q \in quizzes : q.id = quiz_uuid }
  IN  IF hits = {} THEN None ELSE Some(CHOOSE q \in hits : TRUE)

\* db.query(Material).filter(Material.id == material_uuid).first()
FirstMaterial(material_uuid) ==
  LET hits == { m \in materials : m.id = material_uuid }
  IN  IF hits = {} THEN None ELSE Some(CHOOSE m \in hits : TRUE)

\* an entry that also carries the answer key
PublicQuestionLeaky(q, fresh) ==
  [ id      |-> Or(Get(q, "id"), fresh),
    type    |-> TypeOr(q, <<"m", "c", "q">>),
    text    |-> Or(Get(q, "text"), Get(q, "question")),
    options |-> IF "options" \in DOMAIN q THEN q.options ELSE <<>>,
    correctAnswer |-> Get(q, "correctAnswer") ]

\* the entry get_shared_resource publishes for one stored question
PublicQuestion(q, fresh) ==
  [ id      |-> Or(Get(q, "id"), fresh),
    type    |-> TypeOr(q, <<"m", "c", "q">>),
    text    |-> Or(Get(q, "text"), Get(q, "question")),
    options |-> IF "options" \in DOMAIN q THEN q.options ELSE <<>> ]

RECURSIVE PublicQuestions(_, _)
PublicQuestions(questions, fresh) ==
  IF questions = <<>> THEN <<>>
  ELSE IF IsDict(Head(questions))
       THEN << PublicQuestion(Head(questions), fresh) >>
            \o PublicQuestions(Tail(questions), fresh)
       ELSE PublicQuestions(Tail(questions), fresh)

\* quiz.title or (material.title if material else "Quiz")
QuizTitle(quiz) ==
  LET material == FirstMaterial(quiz.material_id)
  IN  Or(quiz.title, IF material # None THEN material[1].title ELSE <<"Q", "u", "i", "z">>)

\* the quiz branch of get_shared_resource
SharedQuizResponse(req, code, link, fresh) ==
  IF ~IsUuid(link.resource_id)
  THEN Response("get", 400, req, Detail("Invalid shared resource id"))
  ELSE LET quiz == FirstQuiz(UuidOf(link.resource_id))
       IN  IF quiz = None
           THEN Response("get", 404, req, Detail("Quiz not found"))
           ELSE Response("get", 200, req,
                  [ resourceType |-> "quiz", shortCode |-> code,
                    viewOnly |-> link.view_only, allowCopy |-> link.allow_copy,
                    title |-> QuizTitle(quiz[1]), quizId |-> UuidStr(quiz[1].id),
                    questions |-> PublicQuestions(quiz[1].questions, fresh) ])

\* the material branch of get_shared_resource; the title prefix is the
\* Russian word for "Assignment"
SharedMaterialResponse(req, code, link) ==
  IF ~IsUuid(link.resource_id)
  THEN Response("get", 400, req, Detail("Invalid shared resource id"))
  ELSE LET material == FirstMaterial(UuidOf(link.resource_id))
       IN  IF material = None
           THEN Response("get", 404, req, Detail("Material not found"))
           ELSE Response("get", 200, req,
                  [ resourceType |-> "material", shortCode |-> code,
                    viewOnly |-> link.view_only, allowCopy |-> link.allow_copy,
                    title |-> <<"Z", "a", "d", "a", "n", "i", "e", ":", " ">> \o material[1].title,
                    materialId |-> UuidStr(material[1].id),
                    description |->
                      Prefix(Strip(Or(material[1].summary, material[1].content)), 1200),
                    acceptUploads |-> TRUE, acceptTextResponse |-> TRUE ])

\* get_shared_resource(short_code, password): the response
SharedResourceResponse(short_code, password, fresh) ==
  LET req   == [ short_code |-> short_code, password |-> password ]
      valid == validate_short_code_or_400(short_code)
      code  == valid[2]
      link  == FirstLink(code)
  IN  IF ~valid[1]
      THEN Response("get", 400, req, Detail("Invalid short code format"))
      ELSE IF link = None
      THEN Response("get", 404, req, Detail("Shared link not found"))
      ELSE IF Expired(link[1])
      THEN Response("get", 410, req, Detail("Shared link has expired"))
      ELSE IF PasswordRefused(link[1], password)
      THEN Response("get", 401, req, Detail("Password required or invalid"))
      ELSE IF link[1].resource_type = "quiz"
      THEN SharedQuizResponse(req, code, link[1], fresh)
      ELSE IF link[1].resource_type = "material"
      THEN SharedMaterialResponse(req, code, link[1])
      ELSE Response("get", 400, req, Detail("Unsupported shared resource"))

get_shared_resource(short_code, password) ==
  /\ AllIdle
  /\ resp' = SharedResourceResponse(short_code, password, FreshId)
  /\ UNCHANGED << now, users, store, cr, lastCreate >>

\* a dict without keys
EmptyDict == [ key \in {} |-> key ]

\* dict.get(key, default)
GetOr(dict, key, default) == IF key \in DOMAIN dict THEN dict[key] ELSE default

\* the dict after dict[key] = value
Put(dict, key, value) ==
  [ k \in DOMAIN dict \cup {key} |-> IF k = key THEN value ELSE dict[k] ]

\* the dict after dict.pop(key, None)
Pop(dict, key) == [ k \in DOMAIN dict \ {key} |-> dict[k] ]

\* a row of users: settings is the JSON column, default=dict
UserRow(id, settings) ==
  [ id |-> id, first_name |-> None, last_name |-> None, settings |-> settings ]

\* time passes
Tick ==
  /\ now < MaxTime
  /\ now' = now + 1
  /\ UNCHANGED << store, users, cr, lastCreate, resp >>

(* ------------------------ initial store and inputs --------------------- *)

\* the two materials the teachers uploaded (upload_material), one each
InitMaterials ==
  { MaterialRow(1, "t1", <<"c", "1">>, <<"l", "e", "s", "s", "o", "n", ".", "t", "x", "t">>, <<" ", "W", "r", "i", "t", "e", " ", "a", "n", " ", "e", "s", "s", "a", "y", " ">>),
    MaterialRow(2, "t2", <<"c", "2">>, <<"n", "o", "t", "e", "s", ".", "t", "x", "t">>, <<"S", "o", "l", "v", "e", " ", "i", "t">>) }

\* the quizzes the teachers saved (create_quiz_from_draft): quiz 11 of t1 on
\* material 1 from `draft`, quiz 12 of t2 on material 2
QuizCatalog(draft) ==
  { QuizRow(11, 1, <<"T", "e", "s", "t", ":", " ", "l", "e", "s", "s", "o", "n", ".", "t", "x", "t">>, StoredDraft(draft)),
    QuizRow(12, 2, <<>>, StoredDraft(SizedDraft(1))) }

InitTables(material_rows, catalog, link_rows) ==
  /\ now = 0
  /\ materials = material_rows
  /\ quizzes = catalog
  /\ links = link_rows
  /\ studentResults = <<>>
  /\ ocrResults = <<>>
  /\ uploadDir = {}
  /\ users = [ id \in Teachers |-> UserRow(id, EmptyDict) ]
  /\ cr = [p \in Procs |-> IdleCreate]
  /\ lastCreate = [ short_code |-> <<>>, expiresAt |-> None ]
  /\ resp = NoResponse

InitStore(catalog, link_rows) == InitTables(InitMaterials, catalog, link_rows)

Init == InitStore(QuizCatalog(ParisDraft), <<>>)

\* the codes the random source can yield
IssuedCodes == { generate_short_code(seed) : seed \in 1..NumSeeds }

\* short codes anonymous callers put in the URL
CodeInputs ==
  IssuedCodes \cup { <<"i", "n", "v", "a", "l", "i", "d", "-", "c", "o", "d", "e">>, <<"a", "b", "c">>, <<" ">> \o generate_short_code(1) \o <<" ">> }

\* ?password= of anonymous callers
PasswordInputs == { None, Some(""), Some("pw"), Some("bad") }

\* (resourceType, resourceId) pairs teachers ask to share: own, foreign,
\* absent and malformed ids
ShareTargets ==
  { << "quiz", UuidStr(11) >>, << "quiz", UuidStr(12) >>, << "quiz", UuidStr(99) >>,
    << "quiz", <<"raw", 0>> >>,
    << "material", UuidStr(1) >>, << "material", UuidStr(2) >>,
    << "material", <<"raw", 0>> >>,
    << "ocr_result", UuidStr(77) >>,
    << "folder", UuidStr(1) >> }

\* request bodies of POST /share/create, as the tests build them; an expiry
\* of -1 lies one second before the start of the clock
SharePayloads ==
  { [ resourceId |-> t[2], resourceType |-> t[1], viewOnly |-> Some(TRUE),
      allowCopy |-> Some(FALSE), password |-> pw, expiresAt |-> ex ] :
      t \in ShareTargets, pw \in { None, Some("pw") },
      ex \in { None, Some(-1) } }

\* the teacher who shares; the other one owns the foreign resources
ShareCallers == {"t1"}

(* ------------------------------ sharing -------------------------------- *)

NextShare ==
  \/ \E p \in SeqProcs, user \in ShareCallers, payload \in SharePayloads :
       CreateBegin(p, user, payload)
  \/ \E p \in SeqProcs, seed \in 1..NumSeeds : CreateDraw(p, seed)
  \/ \E p \in SeqProcs : CreateInsert(p)
  \/ \E short_code \in CodeInputs, password \in PasswordInputs :
       get_shared_resource(short_code, password)

SpecShare == Init /\ [][NextShare]_vars

(* ------------------- binary64 arithmetic of the score ------------------ *)

\* significand width of a Python float (IEEE-754 binary64)
MantDig == 53

\* A float is kept as [int, frac, exp]: the number (int + 0.frac) / 2^exp,
\* with frac a sequence of base-2^LimbBits digits. One leading bit and
\* FracLimbs digits make the MantDig bits of a significand.
LimbBits == 13

Limb == 2^LimbBits

FracLimbs == (MantDig - 1) \div LimbBits

\* number of binary digits of n > 0
BitLen(n) == CHOOSE b \in 1..LimbBits : n < 2^b /\ (b = 1 \/ 2^(b - 1) <= n)

\* the z with 1 <= c * 2^z / t < 2, for 0 < c <= t
Scale(c, t) == CHOOSE z \in 0..LimbBits : c * 2^z >= t /\ (z = 0 \/ c * 2^(z - 1) < t)

\* the next n digits of r / t and the remainder left: << digits, remainder >>
RECURSIVE DivLimbs(_, _, _)
DivLimbs(r, t, n) ==
  IF n = 0 THEN << <<>>, r >>
  ELSE LET rest == DivLimbs((r * Limb) % t, t, n - 1)
       IN  << << (r * Limb) \div t >> \o rest[1], rest[2] >>

\* frac with u added to digit i: << digits, carry into the integer part >>
RECURSIVE AddLimb(_, _, _)
AddLimb(frac, i, u) ==
  IF i = 0 THEN << frac, u >>
  ELSE AddLimb([frac EXCEPT ![i] = (frac[i] + u) % Limb], i - 1, (frac[i] + u) \div Limb)

\* frac times k, from digit i upwards: << digits, carry into the integer part >>
RECURSIVE MulLimbs(_, _, _, _)
MulLimbs(frac, i, k, carry) ==
  IF i = 0 THEN << frac, carry >>
  ELSE MulLimbs([frac EXCEPT ![i] = (frac[i] * k + carry) % Limb], i - 1, k,
                (frac[i] * k + carry) \div Limb)

\* correct / total for 0 < correct <= total: the quotient rounded to the
\* nearest float, ties to even
FloatDiv(c, t) ==
  LET z   == Scale(c, t)
      q   == DivLimbs(c * 2^z - t, t, FracLimbs)
      up  == \/ 2 * q[2] > t
             \/ 2 * q[2] = t /\ q[1][FracLimbs] % 2 = 1
      sum == AddLimb(q[1], FracLimbs, IF up THEN 1 ELSE 0)
  IN  [ int |-> 1 + sum[2], frac |-> sum[1], exp |-> z ]

\* x * 100: the exact product rounded to the nearest float, ties to even
FloatMul100(x) ==
  LET prod == MulLimbs(x.frac, FracLimbs, 100, 0)
      top  == x.int * 100 + prod[2]
      unit == 2^(BitLen(top) + FracLimbs * LimbBits - MantDig)
      low  == prod[1][FracLimbs] % unit
      kept == prod[1][FracLimbs] - low
      up   == \/ 2 * low > unit
              \/ 2 * low = unit /\ (kept \div unit) % 2 = 1
      sum  == AddLimb([prod[1] EXCEPT ![FracLimbs] = kept], FracLimbs,
                      IF up THEN unit ELSE 0)
  IN  [ int |-> top + sum[2], frac |-> sum[1], exp |-> x.exp ]

\* round(y) of a float y >= 0: the nearest integer, ties to even
PyRound(y) ==
  LET p     == 2^y.exp
      whole == y.int \div p
      rem   == y.int % p
      rest  == \E i \in DOMAIN y.frac : i > 1 /\ y.frac[i] # 0
      above == IF y.exp > 0
               THEN rem > p \div 2 \/ (rem = p \div 2 /\ (y.frac[1] # 0 \/ rest))
               ELSE y.frac[1] > Limb \div 2 \/ (y.frac[1] = Limb \div 2 /\ rest)
      half  == IF y.exp > 0
               THEN rem = p \div 2 /\ y.frac[1] = 0 /\ ~rest
               ELSE y.frac[1] = Limb \div 2 /\ ~rest
  IN  IF above \/ (half /\ whole % 2 = 1) THEN whole + 1 ELSE whole

\* round((correct / total) * 100)
Score(correct, total) ==
  IF correct = 0 THEN 0 ELSE PyRound(FloatMul100(FloatDiv(correct, total)))

(* ------------------------ properties of sharing ------------------------ *)

\* the characters of an issued code: ASCII letters and digits
Alnum == Range(ascii_letters) \cup Range(digits)

\* C1: every short code create_share_link persisted is exactly 8 characters
\* long, each an ASCII letter or digit, and no two persisted links carry the
\* same code
C1_CodesWellFormedAndUnique ==
  /\ \A i \in DOMAIN links :
       /\ Len(links[i].short_code) = 8
       /\ \A k \in DOMAIN links[i].short_code : links[i].short_code[k] \in Alnum
  /\ \A i, j \in DOMAIN links :
       i # j => links[i].short_code # links[j].short_code

\* two links were created one after the other, the second just now
C1_TwoLinksCreated ==
  /\ Len(links) >= 2
  /\ resp.op = "create"
  /\ resp.status = 201

\* the link a GET response is about, once its code passed validation
LinkOfGet ==
  IF resp.op = "get" /\ validate_short_code_or_400(resp.req.short_code)[1]
  THEN FirstLink(validate_short_code_or_400(resp.req.short_code)[2])
  ELSE None

\* C4: after create_share_link answered 201 to a body whose expiresAt lies in
\* the past, the link carries that expiry and a GET of its code answers 410
C4_PastExpiryPersisted ==
  ( /\ lastCreate.expiresAt # None
    /\ lastCreate.expiresAt[1] < now
    /\ resp.op = "get"
    /\ LinkOfGet # None
    /\ LinkOfGet[1].short_code = lastCreate.short_code )
  => /\ LinkOfGet[1].expires_at = lastCreate.expiresAt
     /\ resp.status = 410

\* the supplied password verifies against the link's stored hash
Verifies(link, password) ==
  /\ password # None
  /\ password[1] # ""
  /\ verify_password(password[1], link.password[1])

\* C5: a GET of a live link that carries a password hash answers 401 when no
\* password is supplied or the supplied one does not verify, and never 401
\* when it verifies; a 200 therefore implies a verifying password
C5_PasswordGate ==
  ( /\ LinkOfGet # None
    /\ LinkOfGet[1].password # None
    /\ ~Expired(LinkOfGet[1]) )
  => IF Verifies(LinkOfGet[1], resp.req.password)
     THEN resp.status # 401
     ELSE resp.status = 401 /\ DOMAIN resp.body = {"detail"}

\* a protected link refused a wrong password
C5_WrongPasswordRefused ==
  /\ LinkOfGet # None
  /\ LinkOfGet[1].password # None
  /\ resp.req.password = Some("bad")
  /\ resp.status = 401

\* a protected link served a quiz to the right password
C5_RightPasswordServed ==
  /\ LinkOfGet # None
  /\ LinkOfGet[1].password # None
  /\ resp.req.password = Some("pw")
  /\ resp.status = 200

\* the keys of a stored question that hold its answer
AnswerKeys == {"correctAnswer", "correct_answer", "explanation"}

\* the stored questions with every answer key and explanation set to alt
Rekeyed(questions, alt) ==
  [ i \in DOMAIN questions |->
      [ k \in DOMAIN questions[i] |->
          IF k \in AnswerKeys THEN alt ELSE questions[i][k] ] ]

\* a 200 of get_shared_resource for a quiz link
ServedQuiz ==
  /\ resp.op = "get"
  /\ resp.status = 200
  /\ resp.body.resourceType = "quiz"

\* C6: the quiz payload of get_shared_resource carries for each question only
\* id, type, text and options, and it is the same payload whatever the stored
\* answer keys and explanations are
C6_NoAnswerKeyInPayload ==
  ServedQuiz =>
    /\ \A i \in DOMAIN resp.body.questions :
         DOMAIN resp.body.questions[i] = {"id", "type", "text", "options"}
    /\ DOMAIN resp.body \cap AnswerKeys = {}
    /\ \A alt \in { <<>>, <<"X">> } :
         resp.body.questions =
           PublicQuestions(
             Rekeyed(FirstQuiz(UuidOf(LinkOfGet[1].resource_id))[1].questions, alt),
             FreshId)

\* the two-question quiz was served
C6_QuizServed ==
  /\ ServedQuiz
  /\ Len(resp.body.questions) = 2

\* the resource of a create request exists and belongs to the caller
OwnedResource(user, resource_type, resource_id) ==
  CASE resource_type = "quiz" -> OwnQuizExists(user, UuidOf(resource_id))
    [] resource_type = "material" -> OwnMaterialExists(user, UuidOf(resource_id))
    [] resource_type = "ocr_result" ->
         \E i \in DOMAIN ocrResults :
           ocrResults[i].id = UuidOf(resource_id) /\ ocrResults[i].user_id = user

\* C7: create_share_link answers 404 whenever the resource of the request -
\* quiz, material or ocr_result - does not exist or is not the caller's
C7_ForeignResourceRefused ==
  ( /\ resp.op = "create"
    /\ resp.req.resourceType \in ResourceType
    /\ IsUuid(resp.req.resourceId)
    /\ ~OwnedResource(resp.req.user, resp.req.resourceType, resp.req.resourceId) )
  => resp.status = 404

\* a foreign quiz and a foreign material were refused with 404
C7_ForeignQuizRefused ==
  /\ resp.op = "create"
  /\ resp.status = 404
  /\ resp.req.resourceType = "quiz"
  /\ resp.req.resourceId = UuidStr(12)

(* -------------------------- submit_shared_quiz ------------------------- *)

\* a list that keeps the entries that are no objects
AllEntries(questions) == questions

\* [q for q in (quiz.questions or []) if isinstance(q, dict)]
DictQuestions(questions) == SelectSeq(questions, IsDict)

\* qid = str(q.get("id") or "")
QuestionId(q) == Get(q, "id")

\* correct_answer = str(q.get("correctAnswer") or q.get("correct_answer") or "").strip()
CorrectAnswer(q) == Strip(Or(Get(q, "correctAnswer"), Get(q, "correct_answer")))

\* user_answer = str(answers.get(qid, "")).strip()
UserAnswer(answers, q) ==
  Strip(IF QuestionId(q) \in DOMAIN answers THEN answers[QuestionId(q)] ELSE <<>>)

\* a comparison that minds letter case
IsCorrectExact(answers, q) ==
  IF CorrectAnswer(q) # <<>>
  THEN UserAnswer(answers, q) = CorrectAnswer(q)
  ELSE FALSE

\* is_correct = user_answer.lower() == correct_answer.lower() if correct_answer else False
IsCorrect(answers, q) ==
  IF CorrectAnswer(q) # <<>>
  THEN Lower(UserAnswer(answers, q)) = Lower(CorrectAnswer(q))
  ELSE FALSE

\* topic_candidate = str(q.get("topic") or q.get("text") or "").strip()
TopicCandidate(q) == Strip(Or(Get(q, "topic"), Get(q, "text")))

\* the weak_topics list the grading loop builds
WeakTopics(answers, questions) ==
  LET missed == SelectSeq(questions,
                  LAMBDA q : ~IsCorrect(answers, q) /\ TopicCandidate(q) # <<>>)
  IN  [ i \in DOMAIN missed |-> Prefix(TopicCandidate(missed[i]), 80) ]

\* the details list the grading loop builds
Details(answers, questions) ==
  [ i \in DOMAIN questions |->
      [ questionId    |-> QuestionId(questions[i]),
        userAnswer    |-> UserAnswer(answers, questions[i]),
        correctAnswer |-> CorrectAnswer(questions[i]),
        isCorrect     |-> IsCorrect(answers, questions[i]) ] ]

\* the value of `correct` after the grading loop
CorrectCount(answers, questions) ==
  Cardinality({ i \in DOMAIN questions : IsCorrect(answers, questions[i]) })

\* student_name = (payload.get("studentName") or "Student").strip()[:255]
SubmitStudentName(payload) ==
  Prefix(Strip(Or(IF "studentName" \in DOMAIN payload THEN payload.studentName ELSE <<>>,
                  <<"S", "t", "u", "d", "e", "n", "t">>)), 255)

\* answers = payload.get("answers") or {}
SubmitAnswers(payload) == IF "answers" \in DOMAIN payload THEN payload.answers ELSE <<>>

\* uuid.uuid4() as the id of a student result: a value no row carries
FreshResultId ==
  1 + Max({0} \cup { studentResults[i].id : i \in DOMAIN studentResults })

\* row of table student_results
StudentResult(id, user_id, student_identifier, quiz_id, score, weak_topics, created_at) ==
  [ id |-> id, user_id |-> user_id, student_identifier |-> student_identifier,
    quiz_id |-> quiz_id, score |-> score, weak_topics |-> weak_topics,
    created_at |-> created_at ]

\* an outcome of a handler: the response and the rows it inserts
Outcome(response, rows) == [ response |-> response, rows |-> rows ]

\* submit_shared_quiz once the quiz row is loaded
GradeOutcome(req, link, quiz) ==
  LET answers   == SubmitAnswers(req.payload)
      questions == DictQuestions(quiz.questions)
      total     == Len(questions)
      correct   == CorrectCount(answers, questions)
      score     == IF total > 0 THEN Score(correct, total) ELSE 0
  IN  IF questions = <<>>
      THEN Outcome(Response("submit", 400, [ short_code |-> req.short_code ],
                            Detail("Quiz has no questions")), <<>>)
      ELSE Outcome(
             Response("submit", 200, req,
               [ quizId |-> UuidStr(quiz.id), studentName |-> SubmitStudentName(req.payload),
                 score |-> score, correct |-> correct, total |-> total,
                 details |-> Details(answers, questions) ]),
             << StudentResult(FreshResultId, link.user_id,
                              SubmitStudentName(req.payload), quiz.id, score,
                              WeakTopics(answers, questions), now) >>)

\* submit_shared_quiz(short_code, payload): the response and the row to
\* insert; an error is recorded with the code that was asked for, a graded
\* submission also with the body that was graded
SubmitOutcome(short_code, payload) ==
  LET req   == [ short_code |-> short_code ]
      valid == validate_short_code_or_400(short_code)
      link  == FirstLink(valid[2])
  IN  IF ~valid[1]
      THEN Outcome(Response("submit", 400, req, Detail("Invalid short code format")), <<>>)
      ELSE IF link = None
      THEN Outcome(Response("submit", 404, req, Detail("Shared link not found")), <<>>)
      ELSE IF Expired(link[1])
      THEN Outcome(Response("submit", 410, req, Detail("Shared link has expired")), <<>>)
      ELSE IF link[1].resource_type # "quiz"
      THEN Outcome(Response("submit", 400, req, Detail("Unsupported shared resource")), <<>>)
      ELSE IF ~IsUuid(link[1].resource_id)
      THEN Outcome(Response("submit", 400, req, Detail("Invalid shared resource id")), <<>>)
      ELSE IF FirstQuiz(UuidOf(link[1].resource_id)) = None
      THEN Outcome(Response("submit", 404, req, Detail("Quiz not found")), <<>>)
      ELSE GradeOutcome([ short_code |-> short_code, payload |-> payload ], link[1],
                        FirstQuiz(UuidOf(link[1].resource_id))[1])

submit_shared_quiz(short_code, payload) ==
  /\ AllIdle
  /\ Len(studentResults) < MaxResults
  /\ LET out == SubmitOutcome(short_code, payload)
     IN  /\ resp' = out.response
         /\ studentResults' = studentResults \o out.rows
  /\ UNCHANGED << now, users, materials, quizzes, links, ocrResults, uploadDir, cr, lastCreate >>

(* ------------------------------- grading ------------------------------- *)

\* sizes of the quizzes teachers save: a short one, and two on which some
\* number of right answers gives a percentage that ends in one half
GradeSizes == {3}

ScoreSizes == {8, 40}

\* questions as generate_quiz stores them: it keeps an entry whose answer is
\* only white space, because it tests the answer without stripping it
GeneratedBlank ==
  << [ id |-> <<"u", "1">>, type |-> <<"o", "p", "e", "n">>, text |-> <<"B", "l", "a", "n", "k", "?">>, options |-> <<>>,
       correctAnswer |-> <<" ", " ">>, explanation |-> <<>> ],
     [ id |-> <<"u", "2">>, type |-> <<"o", "p", "e", "n">>, text |-> <<"S", "u", "n", "?">>, options |-> <<>>,
       correctAnswer |-> <<"S", "t", "a", "r">>, explanation |-> <<>> ] >>

\* questions of a row in the layout the column comment of Quiz.questions gives,
\* {question, type, options, correct_answer}: no id, one entry without answer,
\* one entry that is no object
LegacyRow ==
  << [ question |-> <<"O", "l", "d", "?">>, type |-> <<"m", "c", "q">>, options |-> <<>> ],
     [ nondict |-> <<"j", "u", "n", "k">> ],
     [ question |-> <<"T", "w", "o", "?">>, type |-> <<"m", "c", "q">>, options |-> <<>>,
       correct_answer |-> <<"B">> ] >>

\* question lists of quiz rows: saved drafts, a generated quiz, and rows put
\* into the table directly as the tests do (empty, or without any object)
QuestionLists ==
  { StoredDraft(ParisDraft), GeneratedBlank, LegacyRow, <<>>,
    << [ nondict |-> <<"j", "u", "n", "k">> ] >> }
  \cup { StoredDraft(SizedDraft(n)) : n \in GradeSizes }

\* quiz 11 of t1 on material 1 with the given questions, quiz 12 of t2
SeededCatalog(questions) ==
  { QuizRow(11, 1, <<"T", "e", "s", "t", ":", " ", "l", "e", "s", "s", "o", "n", ".", "t", "x", "t">>, questions),
    QuizRow(12, 2, <<>>, StoredDraft(SizedDraft(1))) }

InitGrade == \E questions \in QuestionLists : InitStore(SeededCatalog(questions), <<>>)

\* the ids under which a student answers
SheetIds(questions) == { QuestionId(questions[i]) : i \in DOMAIN questions }

\* an answer sheet that gets the first k questions right, written in lower
\* case and padded with blanks; of the others it answers every second one
\* wrongly and leaves the rest out
AnswerSheet(questions, k) ==
  LET index(id) == CHOOSE i \in DOMAIN questions : QuestionId(questions[i]) = id
      ids == { id \in SheetIds(questions) : index(id) <= k \/ index(id) % 2 = 0 }
  IN  [ id \in ids |->
          IF index(id) <= k
          THEN << " " >> \o Lower(CorrectAnswer(questions[index(id)])) \o << " " >>
          ELSE <<"4", "1">> ]

\* the answer sheets students fill in for a list of questions
AnswerSheets(questions) ==
  { AnswerSheet(DictQuestions(questions), k) : k \in 0..Len(DictQuestions(questions)) }

\* the sheet of the scenario: paris for q1, 41 for q2
ScenarioSheet == (<<"q", "1">> :> <<"p", "a", "r", "i", "s">>) @@ (<<"q", "2">> :> <<"4", "1">>)

\* request bodies of POST /share/{code}/submit for the short quizzes: most
\* students leave the name out, one gives it
SubmitPayloads ==
  { [ answers |-> a ] :
      a \in UNION { AnswerSheets(questions) : questions \in QuestionLists } }
  \cup { [ answers |-> ScenarioSheet ],
         [ answers |-> ScenarioSheet, studentName |-> <<" ", "A", "l", "i", "c", "e", " ">> ] }

\* the long quizzes
ScoreLists == { StoredDraft(SizedDraft(n)) : n \in ScoreSizes }

\* request bodies of POST /share/{code}/submit for the long quizzes
ScorePayloads ==
  { [ answers |-> a ] : a \in UNION { AnswerSheets(questions) : questions \in ScoreLists } }

\* the teacher shares quiz 11, without password
GradeSharePayloads ==
  { [ resourceId |-> t[2], resourceType |-> t[1], viewOnly |-> Some(TRUE),
      allowCopy |-> Some(FALSE), password |-> None, expiresAt |-> None ] :
      t \in { << "quiz", UuidStr(11) >> } }

NextGrade ==
  \/ \E p \in SeqProcs, user \in ShareCallers, payload \in GradeSharePayloads :
       CreateBegin(p, user, payload)
  \/ \E p \in SeqProcs, seed \in 1..NumSeeds : CreateDraw(p, seed)
  \/ \E p \in SeqProcs : CreateInsert(p)
  \/ \E short_code \in CodeInputs, payload \in SubmitPayloads :
       submit_shared_quiz(short_code, payload)

SpecGrade == InitGrade /\ [][NextGrade]_vars

\* the long quizzes and the answer sheets for them
InitScore == \E questions \in ScoreLists : InitStore(SeededCatalog(questions), <<>>)

NextScore ==
  \/ \E p \in SeqProcs, user \in ShareCallers, payload \in GradeSharePayloads :
       CreateBegin(p, user, payload)
  \/ \E p \in SeqProcs, seed \in 1..NumSeeds : CreateDraw(p, seed)
  \/ \E p \in SeqProcs : CreateInsert(p)
  \/ \E short_code \in CodeInputs, payload \in ScorePayloads :
       submit_shared_quiz(short_code, payload)

SpecScore == InitScore /\ [][NextScore]_vars

(* ------------------------ properties of grading ------------------------ *)

\* submit_shared_quiz graded the submission
Graded == resp.op = "submit" /\ resp.status = 200

\* the quiz row behind the link a submit response is about
QuizOfSubmit ==
  IF resp.op = "submit" /\ validate_short_code_or_400(resp.req.short_code)[1]
  THEN LET link == FirstLink(validate_short_code_or_400(resp.req.short_code)[2])
       IN  IF link # None /\ ~Expired(link[1]) /\ link[1].resource_type = "quiz"
              /\ IsUuid(link[1].resource_id)
           THEN FirstQuiz(UuidOf(link[1].resource_id))
           ELSE None
  ELSE None

\* the integer nearest to 100 * correct / total, ties to the even one: the
\* value of round(100 * correct / total)
RoundPercent(correct, total) ==
  LET q == (100 * correct) \div total
      r == (100 * correct) % total
  IN  IF 2 * r > total \/ (2 * r = total /\ q % 2 = 1) THEN q + 1 ELSE q

\* C8: the score submit_shared_quiz returns and persists for a quiz with
\* total > 0 questions is round(100 * correct / total), with
\* 0 <= correct <= total and 0 <= score <= 100
C8_ScoreIsRoundedPercentage ==
  Graded =>
    /\ resp.body.total > 0
    /\ resp.body.correct \in 0..resp.body.total
    /\ resp.body.score \in 0..100
    /\ resp.body.score = RoundPercent(resp.body.correct, resp.body.total)
    /\ studentResults[Len(studentResults)].score = resp.body.score

\* 1 of 8 was graded: 12.5 percent, scored 12
C8_OneOfEightGraded ==
  /\ Graded
  /\ resp.body.correct = 1
  /\ resp.body.total = 8
  /\ resp.body.score = 12

\* a stored question list without any question object
NoQuestions(questions) == \A i \in DOMAIN questions : "nondict" \in DOMAIN questions[i]

\* C9: submit_shared_quiz on a quiz whose stored question list is empty or
\* holds no question object answers 400 "Quiz has no questions" (the division
\* is not reached), and no StudentResult is ever persisted for such a quiz
C9_EmptyQuizRejected ==
  /\ ( QuizOfSubmit # None /\ NoQuestions(QuizOfSubmit[1].questions) )
     => resp.status = 400 /\ resp.body = Detail("Quiz has no questions")
  /\ \A i \in DOMAIN studentResults :
       \A q \in quizzes :
         q.id = studentResults[i].quiz_id => ~NoQuestions(q.questions)

\* a submission to the quiz with the empty list was refused
C9_EmptyQuizSubmitted ==
  /\ QuizOfSubmit # None
  /\ QuizOfSubmit[1].questions = <<>>
  /\ resp.status = 400
  /\ studentResults = <<>>

\* the answer stored for a question, as the row holds it
StoredAnswer(q) ==
  IF "correctAnswer" \in DOMAIN q /\ q.correctAnswer # <<>> THEN q.correctAnswer
  ELSE IF "correct_answer" \in DOMAIN q THEN q.correct_answer
  ELSE <<>>

\* the answer a sheet gives under the id of a question
SubmittedAnswer(answers, q) ==
  LET id == IF "id" \in DOMAIN q THEN q.id ELSE <<>>
  IN  IF id \in DOMAIN answers THEN answers[id] ELSE <<>>

\* the question objects of a stored list, in order
QuestionObjects(questions) ==
  SelectSeq(questions, LAMBDA q : "nondict" \notin DOMAIN q)

\* C10: a question is counted correct exactly when its stored answer is not
\* empty and equals the answer submitted under its id, both stripped and in
\* lower case; a question without stored answer counts in total and is never
\* correct; stored Paris/42 against submitted paris/41 gives correct 1,
\* total 2, score 50
C10_CorrectIffNormalizedEqual ==
  Graded =>
    LET questions == QuestionObjects(QuizOfSubmit[1].questions)
        answers   == resp.req.payload.answers
        details   == resp.body.details
    IN  /\ resp.body.total = Len(questions)
        /\ Len(details) = Len(questions)
        /\ \A i \in DOMAIN questions :
             details[i].isCorrect <=>
               /\ Strip(StoredAnswer(questions[i])) # <<>>
               /\ Lower(Strip(SubmittedAnswer(answers, questions[i])))
                    = Lower(Strip(StoredAnswer(questions[i])))
        /\ resp.body.correct =
             Cardinality({ i \in DOMAIN details : details[i].isCorrect })
        /\ ( QuizOfSubmit[1].questions = StoredDraft(ParisDraft)
             /\ answers = ScenarioSheet )
           => ( resp.body.correct = 1 /\ resp.body.total = 2 /\ resp.body.score = 50 )

\* the scenario submission was graded
C10_ScenarioGraded ==
  /\ Graded
  /\ resp.req.payload.answers = ScenarioSheet
  /\ resp.body.correct = 1
  /\ resp.body.total = 2
  /\ Len(studentResults[Len(studentResults)].weak_topics) = 1

\* a question without stored answer was graded
C10_BlankAnswerGraded ==
  /\ Graded
  /\ \E i \in DOMAIN resp.body.details :
       /\ resp.body.details[i].correctAnswer = <<>>
       /\ ~resp.body.details[i].isCorrect
       /\ resp.body.details[i].userAnswer = <<>>

(* ------------------------ upload_assignment_file ----------------------- *)

\* s.startswith(p)
StartsWith(s, p) == Len(s) >= Len(p) /\ SubSeq(s, 1, Len(p)) = p

\* os.path.splitext(name)[1]: from the last dot on, unless only dots precede it
SplitExt(name) ==
  LET dots == { i \in DOMAIN name :
                  name[i] = "." /\ \E j \in 1..(i - 1) : name[j] # "." }
  IN  IF dots = {} THEN <<>> ELSE SubSeq(name, Max(dots), Len(name))

\* os.path.basename(path)
Basename(path) ==
  LET slashes == { i \in DOMAIN path : path[i] = "/" }
  IN  IF slashes = {} THEN path ELSE SubSeq(path, Max(slashes) + 1, Len(path))

to_public_upload_url(file_ref) ==
  LET raw        == Strip(file_ref)
      normalized == [ i \in DOMAIN raw |-> IF raw[i] = "\\" THEN "/" ELSE raw[i] ]
  IN  IF raw = <<>> THEN <<>>
      ELSE IF StartsWith(raw, <<"h", "t", "t", "p", ":", "/", "/">>) \/ StartsWith(raw, <<"h", "t", "t", "p", "s", ":", "/", "/">>) THEN raw
      ELSE IF StartsWith(normalized, <<"/", "a", "p", "i", "/", "v", "1", "/", "u", "p", "l", "o", "a", "d", "s", "/">>) THEN normalized
      ELSE IF StartsWith(normalized, <<"/", "u", "p", "l", "o", "a", "d", "s", "/">>) THEN <<"/", "a", "p", "i", "/", "v", "1">> \o normalized
      ELSE IF Basename(normalized) = <<>> THEN raw
      ELSE <<"/", "a", "p", "i", "/", "v", "1", "/", "u", "p", "l", "o", "a", "d", "s", "/">> \o Basename(normalized)

\* an allow-list that also admits programs
ExtensionsWithPrograms ==
  { <<".", "p", "d", "f">>, <<".", "d", "o", "c", "x">>, <<".", "t", "x", "t">>, <<".", "p", "n", "g">>, <<".", "j", "p", "g">>, <<".", "j", "p", "e", "g">>, <<".", "b", "m", "p">>, <<".", "t", "i", "f">>,
    <<".", "t", "i", "f", "f">>, <<".", "w", "e", "b", "p">>, <<".", "e", "x", "e">> }

allowed_extensions ==
  { <<".", "p", "d", "f">>, <<".", "d", "o", "c", "x">>, <<".", "t", "x", "t">>, <<".", "p", "n", "g">>, <<".", "j", "p", "g">>, <<".", "j", "p", "e", "g">>, <<".", "b", "m", "p">>, <<".", "t", "i", "f">>,
    <<".", "t", "i", "f", "f">>, <<".", "w", "e", "b", "p">> }

\* an uploaded file: its name, its size in bytes, and what text extraction
\* yields for it: Some(text), or None when extraction raises
UploadFile(filename, size, extract) ==
  [ filename |-> filename, size |-> size, extract |-> extract ]

\* the destination save_file opens: UPLOAD_DIR/<uuid4><extension>, where k
\* numbers the uuid4 values drawn
Destination(k, filename) == <<".", "/", "u", "p", "l", "o", "a", "d", "s", "/", "u">> \o TwoDigits(k) \o SplitExt(filename)

\* one entry of OCRResult.questions
Region(id, label, ocrText, confidence, match) ==
  [ id |-> id, label |-> label, original |-> <<>>, ocrText |-> ocrText,
    confidence |-> confidence, match |-> match ]

\* cast(OCRResult.questions, String): the JSON text of the regions, of which
\* the ids, labels and texts are kept
RECURSIVE JsonText(_)
JsonText(regions) ==
  IF regions = <<>> THEN <<>>
  ELSE <<"[", "i", "d", ":">> \o Head(regions).id \o <<"|", "l", "a", "b", "e", "l", ":">> \o Head(regions).label
       \o <<"|", "o", "c", "r", "T", "e", "x", "t", ":">> \o Head(regions).ocrText \o <<"]">> \o JsonText(Tail(regions))

\* the id of the service region upload_assignment_file adds
MetaId(short_code) == <<"a", "s", "s", "i", "g", "n", "m", "e", "n", "t", "-", "m", "e", "t", "a", ":">> \o short_code

\* the duplicate query: a row of the link's owner with this student name
\* whose regions, as text, hold the service id of this code
Duplicate(link, student_name, short_code) ==
  \E i \in DOMAIN ocrResults :
    /\ ocrResults[i].user_id = link.user_id
    /\ ocrResults[i].student_name = student_name
    /\ ILikeContains(JsonText(ocrResults[i].questions), MetaId(short_code))

\* student_name = (studentName or "").strip()[:255] or <the Russian word for
\* "pupil">
UploadStudentName(studentName) ==
  Or(Prefix(Strip(IF studentName = None THEN <<>> ELSE studentName[1]), 255), <<"U", "c", "h", "e", "n", "i", "k">>)

\* response_text = (responseText or "").strip()
ResponseText(responseText) == Strip(IF responseText = None THEN <<>> ELSE responseText[1])

\* row of table ocr_results
OCRResult(id, user_id, student_name, student_accuracy, image_url, questions, status, manual_score, course_id, created_at) ==
  [ id |-> id, user_id |-> user_id, student_name |-> student_name,
    student_accuracy |-> student_accuracy, image_url |-> image_url,
    questions |-> questions, status |-> status, manual_score |-> manual_score,
    course_id |-> course_id, created_at |-> created_at, updated_at |-> created_at ]

\* what a response to upload_assignment_file records of its request
UploadReq(short_code, studentName, file) ==
  [ short_code |-> short_code, studentName |-> studentName, file |-> file ]

\* upload_assignment_file up to the duplicate query: Some(error response), or
\* None when the request goes on
UploadRefusal(short_code, studentName, responseText, file) ==
  LET req   == UploadReq(short_code, studentName, file)
      valid == validate_short_code_or_400(short_code)
      link  == FirstLink(valid[2])
  IN  IF ~valid[1]
      THEN Some(Response("upload", 400, req, Detail("Invalid short code format")))
      ELSE IF link = None
      THEN Some(Response("upload", 404, req, Detail("Shared link not found")))
      ELSE IF Expired(link[1])
      THEN Some(Response("upload", 410, req, Detail("Shared link has expired")))
      ELSE IF link[1].resource_type # "material"
      THEN Some(Response("upload", 400, req,
                         Detail("Uploads are available only for assignment links")))
      ELSE IF ~IsUuid(link[1].resource_id)
      THEN Some(Response("upload", 400, req, Detail("Invalid shared resource id")))
      ELSE IF FirstMaterial(UuidOf(link[1].resource_id)) = None
      THEN Some(Response("upload", 404, req, Detail("Material not found")))
      ELSE IF file = None /\ ResponseText(responseText) = <<>>
      THEN Some(Response("upload", 400, req,
                         Detail("Attach a file and/or provide text response")))
      ELSE IF Duplicate(link[1], UploadStudentName(studentName), valid[2])
      THEN Some(Response("upload", 409, req, Detail("already submitted")))
      ELSE IF file # None /\ Lower(SplitExt(file[1].filename)) \notin allowed_extensions
      THEN Some(Response("upload", 400, req, Detail("Unsupported file type")))
      ELSE None

\* "\n\n".join(chunks)
RECURSIVE JoinChunks(_)
JoinChunks(chunks) ==
  IF chunks = <<>> THEN <<>>
  ELSE IF Len(chunks) = 1 THEN Head(chunks)
  ELSE Head(chunks) \o << "\n", "\n" >> \o JoinChunks(Tail(chunks))

\* the regions that hold the answer: the typed text, or else the text
\* extracted from the file when extraction succeeds and yields any
AnswerRegions(response_text, file) ==
  ( IF response_text # <<>>
    THEN << Region(<<"t", "e", "x", "t", "-", "r", "e", "s", "p", "o", "n", "s", "e">>, <<"a", "n", "s", "w", "e", "r">>, response_text, "High", None) >>
    ELSE <<>> )
  \o
  ( IF /\ file # None
       /\ response_text = <<>>
       /\ file[1].extract # None
       /\ Strip(file[1].extract[1]) # <<>>
    THEN << Region(<<"f", "i", "l", "e", "-", "r", "e", "s", "p", "o", "n", "s", "e">>, <<"f", "i", "l", "e">>, Prefix(Strip(file[1].extract[1]), 12000),
                   "High", None) >>
    ELSE <<>> )

\* the service region that ties the submission to the link
MetaRegion(short_code, material) ==
  Region(MetaId(short_code), <<"m", "e", "t", "a">>, <<"m", "a", "t", "e", "r", "i", "a", "l", "I", "d", ":">> \o TwoDigits(material.id),
         "High", None)

\* combined_answer
CombinedAnswer(regions) ==
  JoinChunks(SelectSeq([ i \in DOMAIN regions |-> Strip(regions[i].ocrText) ],
                       LAMBDA chunk : chunk # <<>>))

\* score = max(0, min(20, int(auto_grade.get("score", 0))))
ClampScore(score) ==
  IF score < 0 THEN 0 ELSE IF score > MaxScore THEN MaxScore ELSE score

\* the region that reports the auto-grader's verdict
FeedbackRegion(auto_grade) ==
  Region(<<"a", "s", "s", "i", "g", "n", "m", "e", "n", "t", "-", "a", "i", "-", "f", "e", "e", "d", "b", "a", "c", "k">>, <<"a", "i">>, Or(auto_grade.feedback, <<"c", "h", "e", "c", "k", "e", "d">>),
         IF auto_grade.confidence \in {"high", "medium"} THEN "High" ELSE "Low",
         Some(ClampScore(auto_grade.score) * 5))

\* an outcome of upload_assignment_file: the response, the rows it inserts
\* and the files it leaves in the upload directory
UploadOutcome(response, rows, files) ==
  [ response |-> response, rows |-> rows, files |-> files ]

\* a request that reached the auto-grader step, with what the grader was
\* seen to do: Some(outcome) when it was called, None when the combined
\* answer was empty and it was not
GradedReq(req, called) == req @@ [ grader |-> called ]

\* upload_assignment_file from save_file on, for a request the checks let
\* through; grade is what ai_service.evaluate_assignment_submission does
\* when it is called: it raises, returns nothing, or returns a verdict
UploadStored(short_code, studentName, responseText, file, grade) ==
  LET code          == validate_short_code_or_400(short_code)[2]
      link          == FirstLink(code)[1]
      material      == FirstMaterial(UuidOf(link.resource_id))[1]
      student_name  == UploadStudentName(studentName)
      response_text == ResponseText(responseText)
      destination   == Destination(Cardinality(uploadDir) + 1, file[1].filename)
      saved_path    == IF file # None THEN destination ELSE <<"t", "e", "x", "t", "_", "s", "u", "b", "m", "i", "s", "s", "i", "o", "n">>
      file_ref      == IF file # None THEN to_public_upload_url(saved_path) ELSE saved_path
      answer        == AnswerRegions(response_text, file)
      combined      == CombinedAnswer(answer)
      auto_grade    == IF combined # <<>> /\ grade.kind = "dict" THEN Some(grade) ELSE None
      req           == GradedReq(UploadReq(short_code, studentName, file),
                                 IF combined # <<>> THEN Some(grade) ELSE None)
      final_score   == IF auto_grade # None THEN Some(grade.score) ELSE None
      regions       == answer \o << MetaRegion(code, material) >>
                       \o ( IF auto_grade # None THEN << FeedbackRegion(grade) >> ELSE <<>> )
      row           == OCRResult(Len(ocrResults) + 1, link.user_id, student_name,
                                 final_score, file_ref, regions, "pending", final_score,
                                 material.course_id, now)
      written       == IF file # None
                       THEN { [ path |-> destination, size |-> file[1].size ] }
                       ELSE {}
  IN  IF file # None /\ file[1].size > MAX_UPLOAD_SIZE
      THEN UploadOutcome(Response("upload", 400, UploadReq(short_code, studentName, file),
                                  Detail("File is too large")), <<>>,
                         { [ path |-> destination, size |-> 0 ] })
      ELSE IF combined # <<>> /\ grade.kind = "raise"
      THEN UploadOutcome(Response("upload", 500, req, Detail("Internal Server Error")),
                         <<>>, written)
      ELSE UploadOutcome(
             Response("upload", 200, req,
               [ submissionId |-> UuidStr(row.id), status |-> row.status,
                 score |-> final_score, studentName |-> student_name,
                 fileUrl |-> to_public_upload_url(row.image_url),
                 message |-> "sent" ]),
             << row >>, written)

upload_assignment_file(short_code, studentName, responseText, file, grade) ==
  /\ AllIdle
  /\ Len(ocrResults) < MaxUploads
  /\ Cardinality(uploadDir) < MaxUploads
  /\ LET refusal == UploadRefusal(short_code, studentName, responseText, file)
     IN  IF refusal # None
         THEN /\ resp' = refusal[1]
              /\ UNCHANGED << ocrResults, uploadDir >>
         ELSE LET out == UploadStored(short_code, studentName, responseText, file, grade)
              IN  /\ resp' = out.response
                  /\ ocrResults' = ocrResults \o out.rows
                  /\ uploadDir' = uploadDir \cup out.files
  /\ UNCHANGED << now, users, materials, quizzes, links, studentResults, cr, lastCreate >>

(* ------------------------------ assignments ---------------------------- *)

\* the teacher shares material 1, without password
UploadSharePayloads ==
  { [ resourceId |-> UuidStr(1), resourceType |-> "material", viewOnly |-> Some(TRUE),
      allowCopy |-> Some(FALSE), password |-> None, expiresAt |-> None ] }

\* studentName form fields
NameInputs == { None, Some(<<"A", "l", "i", "c", "e">>), Some(<<"a", "l", "i", "c", "e">>), Some(<<" ", "A", "l", "i", "c", "e", " ">>) }

\* the answers students hand in: a typed text, a text file, or nothing
AnswerInputs ==
  { << Some(<<" ", "e", "s", "s", "a", "y", " ">>), None >>,
    << None, Some(UploadFile(<<"a", "n", "s", "w", "e", "r", ".", "t", "x", "t">>, 11, Some(<<"m", "y", " ", "h", "o", "m", "e", "w", "o", "r", "k">>))) >>,
    << None, None >> }

\* the auto-grader is not consulted to any effect
NoGrade == [ kind |-> "none" ]

NextUpload ==
  \/ \E p \in SeqProcs, user \in ShareCallers, payload \in UploadSharePayloads :
       CreateBegin(p, user, payload)
  \/ \E p \in SeqProcs, seed \in 1..NumSeeds : CreateDraw(p, seed)
  \/ \E p \in SeqProcs : CreateInsert(p)
  \/ \E short_code \in CodeInputs, studentName \in NameInputs, answer \in AnswerInputs :
       upload_assignment_file(short_code, studentName, answer[1], answer[2], NoGrade)

SpecUpload == Init /\ [][NextUpload]_vars

(* ---------------------- properties of assignments ---------------------- *)

\* the rows of ocr_results that were there when the latest upload arrived
PriorSubmissions ==
  IF resp.op = "upload" /\ resp.status = 200
  THEN SubSeq(ocrResults, 1, Len(ocrResults) - 1)
  ELSE ocrResults

\* the link a submission came in through
SubmittedThrough(row, short_code) ==
  \E i \in DOMAIN row.questions : row.questions[i].id = <<"a", "s", "s", "i", "g", "n", "m", "e", "n", "t", "-", "m", "e", "t", "a", ":">> \o short_code

\* a student name, trimmed and in lower case
NormalName(name) == Lower(Strip(name))

\* the name an upload request is filed under
RequestName(studentName) ==
  IF studentName = None \/ Strip(studentName[1]) = <<>> THEN <<"U", "c", "h", "e", "n", "i", "k">>
  ELSE Strip(studentName[1])

\* C2: an upload that reaches the duplicate check is answered 409 exactly when
\* a submission already exists for the same short code under a name that is
\* the same after trimming and ignoring letter case; another name on the same
\* link, and the same name on another link, are accepted
C2_ConflictIffSameLinkAndName ==
  ( resp.op = "upload" /\ resp.status \in {200, 409} )
  => ( resp.status = 409
       <=> \E i \in DOMAIN PriorSubmissions :
             /\ SubmittedThrough(PriorSubmissions[i], Strip(resp.req.short_code))
             /\ NormalName(PriorSubmissions[i].student_name)
                  = NormalName(RequestName(resp.req.studentName)) )

\* a second upload under the very same name on the same link was refused
C2_RepeatRefused ==
  /\ resp.op = "upload"
  /\ resp.status = 409
  /\ \E i \in DOMAIN ocrResults :
       /\ SubmittedThrough(ocrResults[i], Strip(resp.req.short_code))
       /\ ocrResults[i].student_name = RequestName(resp.req.studentName)

(* --------------------------- links with expiry ------------------------- *)

\* rows of public_links that carry an expiry: of quiz 11 or material 1, with
\* or without password, expiring before the clock starts or while it runs
ExpiringLinks ==
  { PublicLink("t1", t[2], t[1], generate_short_code(seed), TRUE, FALSE, pw, ex) :
      t \in { << "quiz", UuidStr(11) >>, << "material", UuidStr(1) >> },
      seed \in 1..NumSeeds,
      pw \in { None, Some(get_password_hash("pw")) },
      ex \in { None } \cup { Some(t) : t \in (-1)..(MaxTime - 1) } }

InitSeeded == \E row \in ExpiringLinks : InitStore(QuizCatalog(ParisDraft), << row >>)

NextSeeded ==
  \/ Tick
  \/ \E short_code \in CodeInputs, password \in PasswordInputs :
       get_shared_resource(short_code, password)

SpecSeeded == InitSeeded /\ [][NextSeeded]_vars

\* C3: whenever get_shared_resource answers for a link whose expires_at is
\* set and lies before the current time, the answer is 410, whether the
\* password is absent, wrong or right
C3_ExpiredIsGone ==
  [][ ( /\ resp' # resp
        /\ LinkOfGet' # None
        /\ LinkOfGet'[1].expires_at # None
        /\ LinkOfGet'[1].expires_at[1] < now' )
      => ( resp'.status = 410 /\ resp'.body = Detail("Shared link has expired") ) ]_vars

\* an expired link with a password was asked for with the right password
C3_ExpiredWithRightPassword ==
  /\ LinkOfGet # None
  /\ LinkOfGet[1].password = Some(get_password_hash("pw"))
  /\ resp.req.password = Some("pw")
  /\ LinkOfGet[1].expires_at = Some(0)
  /\ now > 0
  /\ resp.status = 410

(* --------------------------- assignment intake ------------------------- *)

\* studentName form fields of the intake runs
IntakeNames == { None, Some(<<"A", "l", "i", "c", "e">>) }

\* what students hand in: a typed text, a text file, a program, or a
\* document one byte over the limit
IntakeAnswers ==
  { << Some(<<" ", "e", "s", "s", "a", "y", " ">>), None >>,
    << None, Some(UploadFile(<<"a", "n", "s", "w", "e", "r", ".", "t", "x", "t">>, 11, Some(<<"m", "y", " ", "h", "o", "m", "e", "w", "o", "r", "k">>))) >>,
    << None, Some(UploadFile(<<"v", "i", "r", "u", "s", ".", "e", "x", "e">>, 11, Some(<<"M", "Z">>))) >>,
    << None, Some(UploadFile(<<"b", "i", "g", ".", "P", "D", "F">>, MAX_UPLOAD_SIZE + 1, Some(<<"b", "o", "o", "k">>))) >> }

\* a verdict of the auto-grader
Verdict(score, feedback, confidence) ==
  [ kind |-> "dict", score |-> score, feedback |-> feedback, confidence |-> confidence ]

\* the call of ai_service.evaluate_assignment_submission raises
GraderRaises == [ kind |-> "raise" ]

\* what the call of the auto-grader can do: raise, return nothing, or
\* return a verdict
GradeOutcomes == { GraderRaises, NoGrade, Verdict(17, <<"g", "o", "o", "d">>, "high") }

(* ------------------- update_ocr_result, batch_approve_ocr -------------- *)

\* db.query(OCRResult).filter(OCRResult.id == id,
\*                            OCRResult.user_id == current_user.id).first():
\* the position of the row, or 0 when there is none
FirstOwnOcr(id, user) ==
  LET hits == { i \in DOMAIN ocrResults :
                  /\ IsUuid(id)
                  /\ ocrResults[i].id = UuidOf(id)
                  /\ ocrResults[i].user_id = user }
  IN  IF hits = {} THEN 0 ELSE CHOOSE i \in hits : \A j \in hits : i <= j

\* updated_at = Column(DateTime, default=utcnow, onupdate=utcnow): a row that
\* db.commit() writes back changed gets the time of the write
Touched(old, new) == IF new = old THEN old ELSE [ new EXCEPT !.updated_at = now ]

\* swagger_schemas.OCRManualCorrection
OCRManualCorrection(manualScore, correctedText) ==
  [ manualScore |-> manualScore, correctedText |-> correctedText ]

\* the regions after the loop over questions: the text of every region that
\* correctedText names is replaced
CorrectedRegions(questions, correctedText) ==
  [ i \in DOMAIN questions |->
      IF questions[i].id \in DOMAIN correctedText
      THEN [ questions[i] EXCEPT !.ocrText = correctedText[questions[i].id] ]
      ELSE questions[i] ]

\* a manual correction that also promotes the row it scores
CorrectedRowPromoting(row, correction) ==
  [ row EXCEPT !.manual_score = IF correction.manualScore # None
                                THEN correction.manualScore ELSE @,
               !.status = IF correction.manualScore # None THEN "graded" ELSE @ ]

\* the row after a manual correction: manual_score and the texts change,
\* student_accuracy and status are left as they are
CorrectedRow(row, correction) ==
  LET scored == IF correction.manualScore # None
                THEN [ row EXCEPT !.manual_score = correction.manualScore ]
                ELSE row
  IN  IF correction.correctedText # None /\ DOMAIN correction.correctedText[1] # {}
      THEN [ scored EXCEPT !.questions =
                             CorrectedRegions(row.questions, correction.correctedText[1]) ]
      ELSE scored

update_ocr_result(user, id, correction) ==
  LET req == [ user |-> user, id |-> id ]
      i   == FirstOwnOcr(id, user)
  IN  /\ AllIdle
      /\ IF i = 0
         THEN /\ resp' = Response("update_ocr", 404, req, Detail("OCR result not found"))
              /\ UNCHANGED ocrResults
         ELSE /\ ocrResults' = [ ocrResults EXCEPT
                                  ![i] = Touched(@, CorrectedRow(@, correction)) ]
              /\ resp' = Response("update_ocr", 200, req, [ status |-> "saved" ])
      /\ UNCHANGED << now, users, materials, quizzes, links, studentResults, uploadDir, cr,
                      lastCreate >>

\* low_confidence_count
LowConfidenceCount(row) ==
  Cardinality({ i \in DOMAIN row.questions : row.questions[i].confidence = "Low" })

\* the rows after the loop of batch_approve_ocr: every row one of the ids
\* finds for this teacher is graded
ApprovedRows(user, ids) ==
  [ i \in DOMAIN ocrResults |->
      IF \E k \in DOMAIN ids : FirstOwnOcr(ids[k], user) = i
      THEN Touched(ocrResults[i], [ ocrResults[i] EXCEPT !.status = "graded" ])
      ELSE ocrResults[i] ]

batch_approve_ocr(user, ids) ==
  LET req      == [ user |-> user, ids |-> ids ]
      found    == SelectSeq(ids, LAMBDA id : FirstOwnOcr(id, user) # 0)
      errors   == [ k \in DOMAIN SelectSeq(ids, LAMBDA id : FirstOwnOcr(id, user) = 0) |->
                      [ id |-> SelectSeq(ids, LAMBDA id : FirstOwnOcr(id, user) = 0)[k],
                        error |-> "Not found" ] ]
      approved == [ k \in DOMAIN found |->
                      [ id |-> found[k], status |-> "approved",
                        lowConfidenceWarnings |->
                          LowConfidenceCount(ocrResults[FirstOwnOcr(found[k], user)]) ] ]
  IN  /\ AllIdle
      /\ ocrResults' = ApprovedRows(user, ids)
      /\ resp' = Response("batch_approve", 200, req,
                          IF errors # <<>>
                          THEN [ status |-> "partial", approved |-> approved,
                                 errors |-> errors ]
                          ELSE [ status |-> "success", approved |-> approved ])
      /\ UNCHANGED << now, users, materials, quizzes, links, studentResults, uploadDir, cr,
                      lastCreate >>

\* manual corrections teachers send: a score and a new text for the typed
\* answer, or nothing
CorrectionInputs ==
  { OCRManualCorrection(Some(150), Some(<<"t", "e", "x", "t", "-", "r", "e", "s", "p", "o", "n", "s", "e">> :> <<"f", "i", "x", "e", "d">>)),
    OCRManualCorrection(None, None) }

\* the ids teachers name: the first submission, or the first and one that
\* does not exist
OcrIdInputs == { UuidStr(1), UuidStr(7) }

ApproveInputs == { << UuidStr(1) >>, << UuidStr(7), UuidStr(1) >> }

\* rows of public_links the intake runs start from: a link of material 1
\* that is open, or has a password, or expires when the clock first moves,
\* and an open link of quiz 11
IntakeLinks ==
  { PublicLink("t1", t[2], t[1], generate_short_code(1), TRUE, FALSE, t[3], t[4]) :
      t \in { << "material", UuidStr(1), None, None >>,
              << "material", UuidStr(1), Some(get_password_hash("pw")), None >>,
              << "material", UuidStr(1), None, Some(0) >>,
              << "quiz", UuidStr(11), None, None >> } }

InitIntake == \E row \in IntakeLinks : InitStore(QuizCatalog(ParisDraft), << row >>)

\* short codes of the intake runs: those of CodeInputs and one of the right
\* length with a character outside the class
IntakeCodes == CodeInputs \cup { <<"c", "o", "d", "e", ".", "1", "2", "3">> }

NextIntake ==
  \/ Tick
  \/ \E short_code \in IntakeCodes, studentName \in IntakeNames, answer \in IntakeAnswers,
        grade \in GradeOutcomes :
       /\ Len(ocrResults) < MaxIntake
       /\ Cardinality(uploadDir) < MaxIntake
       /\ upload_assignment_file(short_code, studentName, answer[1], answer[2], grade)

SpecIntake == InitIntake /\ [][NextIntake]_vars

(* ------------------------- review of submissions ----------------------- *)

\* the teacher t1 has shared material 1 with an open link
InitReview ==
  InitStore(QuizCatalog(ParisDraft),
            << PublicLink("t1", UuidStr(1), "material", generate_short_code(1), TRUE, FALSE,
                          None, None) >>)

\* students hand in typed answers, which the grader scores or not; anyone
\* looks at the link or posts quiz answers to it; teachers correct and
\* approve
NextReview ==
  \/ \E studentName \in IntakeNames, grade \in { NoGrade, Verdict(17, <<"g", "o", "o", "d">>, "high") } :
       /\ Len(ocrResults) < MaxIntake
       /\ upload_assignment_file(generate_short_code(1), studentName, Some(<<" ", "e", "s", "s", "a", "y", " ">>),
                                 None, grade)
  \/ get_shared_resource(generate_short_code(1), None)
  \/ submit_shared_quiz(generate_short_code(1), [ answers |-> ScenarioSheet ])
  \/ \E user \in Teachers, id \in OcrIdInputs, correction \in CorrectionInputs :
       update_ocr_result(user, id, correction)
  \/ \E user \in Teachers, ids \in ApproveInputs : batch_approve_ocr(user, ids)

SpecReview == InitReview /\ [][NextReview]_vars

(* ------------------- the gate of the anonymous handlers ---------------- *)

\* the teacher t1 has shared material 1 or quiz 11 with an open link
InitGate ==
  \E t \in { << "material", UuidStr(1) >>, << "quiz", UuidStr(11) >> } :
    InitStore(QuizCatalog(ParisDraft),
              << PublicLink("t1", t[2], t[1], generate_short_code(1), TRUE, FALSE,
                            None, None) >>)

\* the three anonymous handlers, asked with every kind of short code and
\* handed every kind of answer
NextGate ==
  \/ \E short_code \in IntakeCodes : get_shared_resource(short_code, None)
  \/ \E short_code \in IntakeCodes :
       submit_shared_quiz(short_code, [ answers |-> ScenarioSheet ])
  \/ \E short_code \in IntakeCodes, studentName \in IntakeNames, answer \in IntakeAnswers :
       /\ Len(ocrResults) < MaxIntake
       /\ Cardinality(uploadDir) < MaxIntake
       /\ upload_assignment_file(short_code, studentName, answer[1], answer[2], NoGrade)

SpecGate == InitGate /\ [][NextGate]_vars

\* the latest upload passed every check and reached the auto-grader, whose
\* call failed: it raised, or it returned nothing
GraderFailed ==
  /\ resp.op = "upload"
  /\ "grader" \in DOMAIN resp.req
  /\ resp.req.grader \in { Some(GraderRaises), Some(NoGrade) }

\* the rows the latest upload added, given the rows there were before
RowsAdded(before) == SubSeq(ocrResults, Len(before) + 1, Len(ocrResults))

\* C11: when the auto-grader call of upload_assignment_file fails, the
\* request still succeeds: it is answered 200 and exactly one OCRResult is
\* persisted for it, with status pending and no score
C11_GraderFailureKeepsSubmission ==
  [][ GraderFailed' /\ resp' # resp
      => /\ resp'.status = 200
         /\ Len(RowsAdded(ocrResults)') = 1
         /\ RowsAdded(ocrResults)'[1].status = "pending"
         /\ RowsAdded(ocrResults)'[1].student_accuracy = None
         /\ RowsAdded(ocrResults)'[1].manual_score = None ]_vars

\* an upload whose grader call raised was answered
C11_GraderRaised ==
  /\ resp.op = "upload"
  /\ "grader" \in DOMAIN resp.req
  /\ resp.req.grader = Some(GraderRaises)

C12_ApprovedByOwner ==
  /\ resp.op = "batch_approve"
  /\ resp.req.user = "t1"
  /\ \E i \in DOMAIN ocrResults : ocrResults[i].status = "graded"

(* ----------------------- get_analytics_performance --------------------- *)

\* ticks of the clock in one calendar day
TicksPerDay == 2

\* datetime.date(): the calendar day a time falls in
Date(t) == t \div TicksPerDay

\* round(numerator / denominator) of Python 3 for denominator > 0: to the
\* nearest integer, a half to the even neighbour
PyRoundDiv(numerator, denominator) ==
  LET q == numerator \div denominator
      r == numerator % denominator
  IN  IF 2 * r < denominator THEN q
      ELSE IF 2 * r > denominator THEN q + 1
      ELSE IF q % 2 = 0 THEN q ELSE q + 1

RECURSIVE SumSeq(_)
SumSeq(s) == IF s = <<>> THEN 0 ELSE Head(s) + SumSeq(Tail(s))

\* (name or <pupil>).strip() or <pupil>
AttemptStudent(name) == Or(Strip(Or(name, <<"U", "c", "h", "e", "n", "i", "k">>)), <<"U", "c", "h", "e", "n", "i", "k">>)

\* _normalize_status: the stored values carry no blanks and no capitals
_normalize_status(value) == IF value = None THEN "pending" ELSE value[1]

\* one entry of merged_attempts
Attempt(student, score, date, weak_topics) ==
  [ student |-> student, score |-> score, date |-> date, weak_topics |-> weak_topics ]

\* the ids of all materials of a teacher, whatever the course
MaterialIdsOfAnyCourse(user, courseId) ==
  { m.id : m \in { x \in materials : x.user_id = user } }

\* material_ids
CourseMaterialIds(user, courseId) ==
  { m.id : m \in { x \in materials : x.user_id = user /\ x.course_id = courseId } }

\* quiz_results: the teacher's results of quizzes on the course's materials
\* among the rows `results` of student_results, by submission date (rows
\* are appended as the clock runs)
QuizResults(results, user, courseId) ==
  SelectSeq(results,
            LAMBDA row : /\ row.user_id = user
                         /\ \E q \in quizzes :
                              /\ q.id = row.quiz_id
                              /\ q.material_id \in CourseMaterialIds(user, courseId))

\* scored_assignments: the teacher's submissions of the course that carry a
\* score, the manual one first
ScoredAssignments(submissions, user, courseId) ==
  LET rows   == SelectSeq(submissions,
                          LAMBDA row : row.user_id = user /\ row.course_id = courseId)
      scored == SelectSeq(rows, LAMBDA row : row.manual_score # None
                                             \/ row.student_accuracy # None)
  IN  [ i \in DOMAIN scored |->
          Attempt(AttemptStudent(scored[i].student_name),
                  IF scored[i].manual_score # None THEN scored[i].manual_score[1]
                  ELSE scored[i].student_accuracy[1],
                  scored[i].updated_at,
                  IF _normalize_status(Some(scored[i].status)) \notin {"graded", "reviewed"}
                  THEN << <<"Z", "a", "d", "a", "n", "i", "e">> >> ELSE <<>>) ]

\* merged_attempts
MergedAttempts(results, submissions, user, courseId) ==
  LET quiz_results == QuizResults(results, user, courseId)
  IN  [ i \in DOMAIN quiz_results |->
          Attempt(AttemptStudent(quiz_results[i].student_identifier),
                  quiz_results[i].score, quiz_results[i].created_at,
                  SelectSeq([ k \in DOMAIN quiz_results[i].weak_topics |->
                                Strip(quiz_results[i].weak_topics[k]) ],
                            LAMBDA topic : topic # <<>>)) ]
      \o ScoredAssignments(submissions, user, courseId)

\* day.strftime("%d.%m")
DayName(day) == << "day", day >>

\* performance_items: for offset 6, 5, .., 0 the mean score of the attempts
\* of the day today - offset, or 0
PerformanceItems(attempts, today) ==
  [ k \in 1..7 |->
      LET day         == today - (7 - k)
          of_day      == SelectSeq(attempts, LAMBDA entry : Date(entry.date) = day)
          day_results == [ i \in DOMAIN of_day |-> of_day[i].score ]
      IN  [ name  |-> DayName(day),
            value |-> IF day_results # <<>>
                      THEN PyRoundDiv(SumSeq(day_results), Len(day_results)) ELSE 0 ] ]

\* the weak topics of all attempts, in order, without the empty ones
RECURSIVE TopicMentions(_)
TopicMentions(attempts) ==
  IF attempts = <<>> THEN <<>>
  ELSE SelectSeq([ k \in DOMAIN Head(attempts).weak_topics |->
                     Strip(Head(attempts).weak_topics[k]) ],
                 LAMBDA topic : topic # <<>>)
       \o TopicMentions(Tail(attempts))

\* topic_counter[topic]
TopicCount(mentions, topic) ==
  Cardinality({ i \in DOMAIN mentions : mentions[i] = topic })

\* the keys of a Counter or dict in insertion order: every value of the
\* sequence once, at its first place
RECURSIVE FirstSeen(_)
FirstSeen(s) ==
  IF s = <<>> THEN <<>>
  ELSE << Head(s) >> \o FirstSeen(SelectSeq(Tail(s), LAMBDA x : x # Head(s)))

\* Counter.most_common(n): by count, the largest first, equal counts in
\* insertion order
RECURSIVE MostCommon(_, _, _)
MostCommon(keys, mentions, n) ==
  IF n = 0 \/ keys = <<>> THEN <<>>
  ELSE LET best == CHOOSE i \in DOMAIN keys :
                     \A j \in DOMAIN keys :
                       \/ TopicCount(mentions, keys[i]) > TopicCount(mentions, keys[j])
                       \/ /\ TopicCount(mentions, keys[i]) = TopicCount(mentions, keys[j])
                          /\ i <= j
       IN  << keys[best] >>
           \o MostCommon(SelectSeq(keys, LAMBDA x : x # keys[best]), mentions, n - 1)

\* "green" if score >= 80 else "yellow" if score >= 60 else "red"
ColorKey(score) == IF score >= 80 THEN "green" ELSE IF score >= 60 THEN "yellow" ELSE "red"

\* max(0, min(100, x))
Clamp100(x) == IF x < 0 THEN 0 ELSE IF x > 100 THEN 100 ELSE x

\* the number of topics the ranking shows
TopTopics == 8

\* topics on the ranking path: score = max(0, min(100,
\* int(round(100 - (count / max_count) * 45))))
RankedTopics(mentions) ==
  LET keys      == FirstSeen(mentions)
      max_count == Max({ TopicCount(mentions, keys[i]) : i \in DOMAIN keys })
      top       == MostCommon(keys, mentions, TopTopics)
  IN  [ i \in DOMAIN top |->
          LET score == Clamp100(PyRoundDiv(100 * max_count
                                           - 45 * TopicCount(mentions, top[i]), max_count))
          IN  [ name |-> top[i], score |-> score, colorKey |-> ColorKey(score) ] ]

\* topics on the fallback path: the overall average and the regularity proxy
FallbackTopics(attempts) ==
  LET average == PyRoundDiv(SumSeq([ i \in DOMAIN attempts |-> attempts[i].score ]),
                            Len(attempts))
  IN  << [ name |-> <<"o", "v", "e", "r", "a", "l", "l">>, score |-> average, colorKey |-> ColorKey(average) ],
         [ name |-> <<"r", "e", "g", "u", "l", "a", "r", "i", "t", "y">>,
           score |-> IF Len(attempts) * 5 < 100 THEN Len(attempts) * 5 ELSE 100,
           colorKey |-> "blue" ] >>

Topics(attempts) ==
  IF TopicMentions(attempts) # <<>> THEN RankedTopics(TopicMentions(attempts))
  ELSE FallbackTopics(attempts)

\* sorted(items, key=date): by date, equal dates in the order they had
RECURSIVE SortedByDate(_)
SortedByDate(items) ==
  IF items = <<>> THEN <<>>
  ELSE LET first == CHOOSE i \in DOMAIN items :
                      \A j \in DOMAIN items :
                        \/ items[i].date < items[j].date
                        \/ items[i].date = items[j].date /\ i <= j
       IN  << items[first] >>
           \o SortedByDate([ k \in 1..(Len(items) - 1) |->
                               IF k < first THEN items[k] ELSE items[k + 1] ])

\* the last n entries of a list, s[-n:]
LastN(s, n) == SubSeq(s, Max({1, Len(s) - n + 1}), Len(s))

\* the scores of a list of attempts
Scores(items) == [ i \in DOMAIN items |-> items[i].score ]

\* the trend of a student: the mean of the last three attempts against the
\* mean of the three before them, with a dead band of 2 points
Trend(student_items) ==
  LET recent   == LastN(student_items, 3)
      previous == SubSeq(student_items, Max({1, Len(student_items) - 5}),
                         Len(student_items) - 3)
      r        == SumSeq(Scores(recent))
      p        == SumSeq(Scores(previous))
  IN  IF previous = <<>> THEN "neutral"
      ELSE IF r * Len(previous) > (p + 2 * Len(previous)) * Len(recent) THEN "up"
      ELSE IF r * Len(previous) < (p - 2 * Len(previous)) * Len(recent) THEN "down"
      ELSE "neutral"

\* status of a student from the average score and the number of attempts
StudentStatus(total, attempts_count) ==
  LET status == IF total >= 85 * attempts_count THEN <<"e", "x", "c", "e", "l", "l", "e", "n", "t">>
                ELSE IF total >= 70 * attempts_count THEN <<"g", "o", "o", "d">>
                ELSE IF total >= 50 * attempts_count THEN <<"s", "a", "t", "i", "s", "f", "a", "c", "t", "o", "r", "y">>
                ELSE <<"n", "e", "e", "d", "s", " ", "a", "t", "t", "e", "n", "t", "i", "o", "n">>
  IN  IF attempts_count >= 3 /\ status \in { <<"g", "o", "o", "d">>, <<"e", "x", "c", "e", "l", "l", "e", "n", "t">> }
      THEN <<"r", "e", "g", "u", "l", "a", "r", ":", " ">> \o status ELSE status

StudentColor(total, attempts_count) ==
  IF total >= 85 * attempts_count THEN "green"
  ELSE IF total >= 70 * attempts_count THEN "blue"
  ELSE IF total >= 50 * attempts_count THEN "orange"
  ELSE "red"

\* student_name.replace(' ', '%20'), the seed of the avatar URL
AvatarSeed(student_name) ==
  [ i \in DOMAIN student_name |->
      IF student_name[i] = " " THEN "%20" ELSE student_name[i] ]

\* one StudentMetric; progress = round(avg_score, 1), kept in tenths
StudentMetric(index, student_name, items) ==
  LET student_items == SortedByDate(items)
      total         == SumSeq(Scores(student_items))
  IN  [ id       |-> index,
        name     |-> student_name,
        status   |-> StudentStatus(total, Len(student_items)),
        progress |-> PyRoundDiv(10 * total, Len(student_items)),
        trend    |-> Trend(student_items),
        color    |-> StudentColor(total, Len(student_items)),
        avatar   |-> AvatarSeed(student_name) ]

\* sorted(students, key=progress, reverse=True): the best first, equal
\* progress in the order they had
RECURSIVE SortedByProgress(_)
SortedByProgress(students) ==
  IF students = <<>> THEN <<>>
  ELSE LET first == CHOOSE i \in DOMAIN students :
                      \A j \in DOMAIN students :
                        \/ students[i].progress > students[j].progress
                        \/ students[i].progress = students[j].progress /\ i <= j
       IN  << students[first] >>
           \o SortedByProgress([ k \in 1..(Len(students) - 1) |->
                                   IF k < first THEN students[k] ELSE students[k + 1] ])

\* students: one metric per student name, in the order the names first
\* occur in merged_attempts, then sorted by progress
Students(attempts) ==
  LET names == FirstSeen([ i \in DOMAIN attempts |-> AttemptStudent(attempts[i].student) ])
  IN  SortedByProgress(
        [ index \in DOMAIN names |->
            StudentMetric(index, names[index],
                          SelectSeq(attempts, LAMBDA item :
                                      AttemptStudent(item.student) = names[index])) ])

\* AnalyticsData
AnalyticsData(performance, topics, students) ==
  [ performance |-> performance, topics |-> topics, students |-> students ]

\* the body get_analytics_performance answers with: courseId is None when
\* the query parameter is absent
AnalyticsPerformance(results, submissions, user, courseId) ==
  LET attempts == MergedAttempts(results, submissions, user, courseId[1])
  IN  IF courseId = None \/ courseId[1] = <<>> THEN AnalyticsData(<<>>, <<>>, <<>>)
      ELSE IF CourseMaterialIds(user, courseId[1]) = {} THEN AnalyticsData(<<>>, <<>>, <<>>)
      ELSE IF attempts = <<>> THEN AnalyticsData(<<>>, <<>>, <<>>)
      ELSE AnalyticsData(PerformanceItems(attempts, Date(now)), Topics(attempts),
                         Students(attempts))

get_analytics_performance(user, courseId) ==
  /\ AllIdle
  /\ resp' = Response("performance", 200, [ user |-> user, courseId |-> courseId ],
                      AnalyticsPerformance(studentResults, ocrResults, user, courseId))
  /\ UNCHANGED << now, users, store, cr, lastCreate >>

(* ------------------------------ analytics ------------------------------ *)

\* the number of questions of the quiz the analytics runs use: one more
\* than the ranking shows
ManyTopics == TopTopics + 1

\* the teacher t1 has shared material 1 and quiz 11, a quiz of ManyTopics
\* questions, with open links
InitAnalytics ==
  InitStore(QuizCatalog(SizedDraft(ManyTopics)),
            << PublicLink("t1", UuidStr(1), "material", generate_short_code(1), TRUE, FALSE,
                          None, None),
               PublicLink("t1", UuidStr(11), "quiz", generate_short_code(2), TRUE, FALSE,
                          None, None) >>)

\* a sheet with every answer right, and a body without answers
QuizPayloads ==
  { [ answers |-> [ id \in { (<<"g">> \o TwoDigits(i)) : i \in 1..ManyTopics } |-> <<"y", "e", "s">> ],
      studentName |-> <<"A", "l", "i", "c", "e">> ],
    [ studentName |-> <<"B", "o", "b">> ] }

\* ?courseId= of get_analytics_performance: absent, empty, the course of
\* t1, the course of t2
CourseInputs == { None, Some(<<>>), Some(<<"c", "1">>), Some(<<"c", "2">>) }

NextAnalytics ==
  \/ Tick
  \/ \E payload \in QuizPayloads : submit_shared_quiz(generate_short_code(2), payload)
  \/ \E studentName \in IntakeNames, grade \in { NoGrade, Verdict(17, <<"g", "o", "o", "d">>, "high") } :
       /\ Len(ocrResults) < MaxIntake
       /\ upload_assignment_file(generate_short_code(1), studentName, Some(<<" ", "e", "s", "s", "a", "y", " ">>),
                                 None, grade)
  \/ \E correction \in CorrectionInputs : update_ocr_result("t1", UuidStr(1), correction)
  \/ batch_approve_ocr("t1", << UuidStr(1) >>)
  \/ \E user \in Teachers, courseId \in CourseInputs :
       get_analytics_performance(user, courseId)

SpecAnalytics == InitAnalytics /\ [][NextAnalytics]_vars

\* C13: get_analytics_performance asked for a course answers with a
\* performance series of exactly 7 points, one per day of the 7 days that
\* end today, the oldest first, also when the course has no materials or
\* no scored results
C13_SevenPointSeries ==
  [][ ( /\ resp' # resp
        /\ resp'.op = "performance"
        /\ resp'.req.courseId # None
        /\ resp'.req.courseId # Some(<<>>) )
      => /\ Len(resp'.body.performance) = 7
         /\ \A k \in 1..7 :
              resp'.body.performance[k].name = DayName(Date(now') - (7 - k)) ]_vars

\* a course with results was asked for and a series was served
C13_SeriesServed ==
  /\ resp.op = "performance"
  /\ Len(resp.body.performance) = 7
  /\ \E k \in 1..7 : resp.body.performance[k].value > 0

\* C14: the topics list of get_analytics_performance has at most 8 entries
\* and every entry's score lies in 0..100, on the ranking path and on the
\* fallback path
C14_TopicsBounded ==
  resp.op = "performance"
  => /\ Len(resp.body.topics) <= 8
     /\ \A i \in DOMAIN resp.body.topics : resp.body.topics[i].score \in 0..100

\* a ranking cut to 8 topics was served
C14_RankingCut ==
  /\ resp.op = "performance"
  /\ Len(resp.body.topics) = TopTopics
  /\ \E i \in DOMAIN studentResults : Len(studentResults[i].weak_topics) = ManyTopics

(* ----------------------- properties of short codes --------------------- *)

\* the text matches ^[A-Za-z0-9_-]{6,32}$
MatchesCodePattern(text) ==
  /\ Len(text) \in 6..32
  /\ \A i \in DOMAIN text :
       text[i] \in { "a", "b", "c", "d", "e", "f", "g", "h", "i", "j", "k", "l", "m",
                     "n", "o", "p", "q", "r", "s", "t", "u", "v", "w", "x", "y", "z",
                     "A", "B", "C", "D", "E", "F", "G", "H", "I", "J", "K", "L", "M",
                     "N", "O", "P", "Q", "R", "S", "T", "U", "V", "W", "X", "Y", "Z",
                     "0", "1", "2", "3", "4", "5", "6", "7", "8", "9", "_", "-" }

\* the latest response is one of the three anonymous handlers'
AnonymousResponse == resp.op \in { "get", "submit", "upload" }

\* the latest response refuses the short code for its form
RefusedForForm == resp.status = 400 /\ resp.body = Detail("Invalid short code format")

\* the latest response says the lookup found no link
LinkNotFound == resp.status = 404 /\ resp.body = Detail("Shared link not found")

C15_PaddedCodeServed ==
  /\ resp.op = "get"
  /\ resp.req.short_code = << " " >> \o generate_short_code(1) \o << " " >>
  /\ resp.status = 200

\* C16: the short code 'invalid-code' of the tests, for which no link
\* exists, is answered 400 'Invalid short code format' by each of the three
\* anonymous handlers, and not 404
C16_InvalidCodeRefused ==
  ( AnonymousResponse /\ resp.req.short_code = <<"i", "n", "v", "a", "l", "i", "d", "-", "c", "o", "d", "e">> ) => RefusedForForm

\* the upload handler was asked with 'invalid-code' and answered that no
\* such link exists
C16_InvalidCodeNotFound ==
  /\ resp.op = "upload"
  /\ resp.req.short_code = <<"i", "n", "v", "a", "l", "i", "d", "-", "c", "o", "d", "e">>
  /\ LinkNotFound

(* ------------------------ properties of the intake --------------------- *)

\* the text ends with the given ending
EndsWith(text, ending) ==
  /\ Len(text) >= Len(ending)
  /\ SubSeq(text, Len(text) - Len(ending) + 1, Len(text)) = ending

\* the file name carries one of the extensions pdf, docx, txt, png, jpg,
\* jpeg, bmp, tif, tiff, webp, in any letter case
AllowedFileName(filename) ==
  \E ext \in { <<"p", "d", "f">>, <<"d", "o", "c", "x">>, <<"t", "x", "t">>, <<"p", "n", "g">>, <<"j", "p", "g">>, <<"j", "p", "e", "g">>, <<"b", "m", "p">>, <<"t", "i", "f">>,
                <<"t", "i", "f", "f">>, <<"w", "e", "b", "p">> } :
    EndsWith(Lower(filename), << "." >> \o ext)

\* the request the latest upload answered would be accepted but for its
\* file: its code is that of an unexpired link of a material, and the
\* student has not submitted through that link before
AcceptableButForFile(rows_before, time) ==
  /\ \E i \in DOMAIN links :
       /\ links[i].short_code = Strip(resp.req.short_code)
       /\ links[i].resource_type = "material"
       /\ links[i].expires_at = None \/ links[i].expires_at[1] >= time
  /\ \A i \in DOMAIN rows_before :
       ~ ( /\ SubmittedThrough(rows_before[i], Strip(resp.req.short_code))
           /\ rows_before[i].student_name = RequestName(resp.req.studentName) )

\* C17: an upload whose file has an extension outside the allow-list is
\* refused and writes nothing, neither a file in the upload directory nor an
\* OCRResult; when the request is acceptable but for its file, the refusal
\* is 400 'Unsupported file type'
C17_UnsupportedTypeWritesNothing ==
  [][ ( /\ resp' # resp
        /\ resp'.op = "upload"
        /\ resp'.req.file # None
        /\ ~AllowedFileName(resp'.req.file[1].filename) )
      => /\ resp'.status >= 400
         /\ ocrResults' = ocrResults
         /\ uploadDir' = uploadDir
         /\ AcceptableButForFile(ocrResults, now)'
            => ( resp'.status = 400 /\ resp'.body = Detail("Unsupported file type") ) ]_vars

\* a program was handed in on the material link and refused for its type
C17_ProgramRefused ==
  /\ resp.op = "upload"
  /\ resp.req.file # None
  /\ resp.req.file[1].filename = <<"v", "i", "r", "u", "s", ".", "e", "x", "e">>
  /\ resp.status = 400
  /\ resp.body = Detail("Unsupported file type")

\* C18: an upload whose file is larger than MAX_UPLOAD_SIZE persists no
\* OCRResult and creates no file in the upload directory; when the request
\* is acceptable but for its file, it is answered 400 'File is too large'
C18_OversizedWritesNothing ==
  [][ ( /\ resp' # resp
        /\ resp'.op = "upload"
        /\ resp'.req.file # None
        /\ resp'.req.file[1].size > MAX_UPLOAD_SIZE )
      => /\ resp'.status >= 400
         /\ ocrResults' = ocrResults
         /\ uploadDir' = uploadDir
         /\ AcceptableButForFile(ocrResults, now)'
            => ( resp'.status = 400 /\ resp'.body = Detail("File is too large") ) ]_vars

\* an oversized document was refused
C18_OversizedRefused ==
  /\ resp.op = "upload"
  /\ resp.req.file # None
  /\ resp.req.file[1].size = MAX_UPLOAD_SIZE + 1
  /\ resp.status = 400
  /\ resp.body = Detail("File is too large")

\* the link the latest upload asked for, as a sequence of length <= 1
LinkOfUpload ==
  SelectSeq(links, LAMBDA link : link.short_code = Strip(resp.req.short_code))

\* C19: an upload with a well-formed code is accepted only if the link
\* resolves as for get_shared_resource and is a material link: an unknown
\* code gives 404, an expired link 410, a link with a password 401 (the
\* request carries no password), a link of another type 400; a refused
\* upload persists no OCRResult
C19_UploadGate ==
  [][ ( /\ resp' # resp
        /\ resp'.op = "upload"
        /\ MatchesCodePattern(Strip(resp'.req.short_code)) )
      => /\ resp'.status >= 400 => ocrResults' = ocrResults
         /\ IF LinkOfUpload' = <<>> THEN resp'.status = 404
            ELSE IF /\ LinkOfUpload'[1].expires_at # None
                    /\ LinkOfUpload'[1].expires_at[1] < now'
            THEN resp'.status = 410
            ELSE IF LinkOfUpload'[1].password # None THEN resp'.status = 401
            ELSE IF LinkOfUpload'[1].resource_type # "material" THEN resp'.status = 400
            ELSE TRUE ]_vars

\* an upload through an expired link was refused
C19_ExpiredLinkRefused ==
  /\ resp.op = "upload"
  /\ resp.status = 410
  /\ ocrResults = <<>>

\* an upload through a link with a password was accepted
C19_ProtectedLinkAccepted ==
  /\ resp.op = "upload"
  /\ resp.status = 200
  /\ LinkOfUpload # <<>>
  /\ LinkOfUpload[1].password # None

(* ----------------- submit_shared_quiz, workers side by side ------------ *)

\* the table after a write that keeps one row per student and quiz
UpsertedResults(row) ==
  IF \E i \in DOMAIN studentResults :
       /\ studentResults[i].student_identifier = row.student_identifier
       /\ studentResults[i].quiz_id = row.quiz_id
  THEN [ i \in DOMAIN studentResults |->
           IF /\ studentResults[i].student_identifier = row.student_identifier
              /\ studentResults[i].quiz_id = row.quiz_id
           THEN [ row EXCEPT !.id = studentResults[i].id ]
           ELSE studentResults[i] ]
  ELSE Append(studentResults, row)

\* db.add(result); db.commit(): one INSERT of a row with a fresh id
InsertedResults(row) == Append(studentResults, row)

\* requests of workers that are between their reads and their commit
InFlight == Cardinality({ p \in Procs : cr[p].pc # "idle" })

\* submit_shared_quiz of worker p up to db.add: the link and the quiz are
\* read and the answers graded; an error is answered at once
SubmitBegin(p, short_code, payload) ==
  /\ cr[p].pc = "idle"
  /\ Len(studentResults) + InFlight < MaxSubmits
  /\ LET out == SubmitOutcome(short_code, payload)
     IN  IF out.rows = <<>>
         THEN /\ resp' = out.response
              /\ UNCHANGED cr
         ELSE /\ cr' = [cr EXCEPT ![p] = [ pc |-> "commit", out |-> out ]]
              /\ UNCHANGED resp
  /\ UNCHANGED << now, users, store, lastCreate >>

\* db.add(result); db.commit() of worker p and the response: the row gets
\* its id and its submission_date when it is written
SubmitCommit(p) ==
  /\ cr[p].pc = "commit"
  /\ studentResults' =
       InsertedResults([ cr[p].out.rows[1] EXCEPT !.id = FreshResultId,
                                                  !.created_at = now ])
  /\ resp' = cr[p].out.response
  /\ cr' = [cr EXCEPT ![p] = IdleCreate]
  /\ UNCHANGED << now, users, materials, quizzes, links, ocrResults, uploadDir, lastCreate >>

\* the teacher t1 has shared quiz 11 with an open link
InitSubmit ==
  InitStore(QuizCatalog(ParisDraft),
            << PublicLink("t1", UuidStr(11), "quiz", generate_short_code(1), TRUE, FALSE,
                          None, None) >>)

\* bodies of the concurrent submissions: Alice with one answer wrong, Alice
\* with both right, and a student who gives no name
ConcurrentPayloads ==
  { [ answers |-> ScenarioSheet, studentName |-> <<"A", "l", "i", "c", "e">> ],
    [ answers |-> (<<"q", "1">> :> <<"P", "a", "r", "i", "s">>) @@ (<<"q", "2">> :> <<"4", "2">>), studentName |-> <<"A", "l", "i", "c", "e">> ],
    [ answers |-> ScenarioSheet ] }

NextSubmit ==
  \/ Tick
  \/ \E p \in Procs, short_code \in { generate_short_code(1), generate_short_code(2) },
        payload \in ConcurrentPayloads :
       SubmitBegin(p, short_code, payload)
  \/ \E p \in Procs : SubmitCommit(p)

SpecSubmit == InitSubmit /\ [][NextSubmit]_vars

\* some worker commits its submission in this step
SomeCommit == \E p \in Procs : cr[p].pc = "commit" /\ cr'[p].pc = "idle"

\* C20: every successful submit_shared_quiz adds exactly one StudentResult
\* and changes no row that exists, also when the same student submits
\* again and however the submissions of concurrent workers interleave; no
\* other step changes the table, so N submissions leave N rows
C20_OneRowPerSubmission ==
  [][ /\ SubSeq(studentResults', 1, Len(studentResults)) = studentResults
      /\ Len(studentResults') = Len(studentResults) + (IF SomeCommit THEN 1 ELSE 0)
      /\ SomeCommit
         => /\ resp'.op = "submit"
            /\ resp'.status = 200
            /\ studentResults'[Len(studentResults')].student_identifier
                 = resp'.body.studentName
            /\ \A i \in DOMAIN studentResults :
                 studentResults[i].id # studentResults'[Len(studentResults')].id ]_vars

\* two workers each hold a graded submission of the same student that is
\* not yet committed
C20_TwoInFlight ==
  /\ \A p \in Procs : cr[p].pc = "commit"
  /\ \A p, q \in Procs :
       cr[p].out.rows[1].student_identifier = cr[q].out.rows[1].student_identifier

\* the same student has submitted twice and both rows are there
C20_ResubmissionStored ==
  /\ Len(studentResults) = 2
  /\ studentResults[1].student_identifier = studentResults[2].student_identifier
  /\ studentResults[1].quiz_id = studentResults[2].quiz_id

(* ------------------------------ the journal ---------------------------- *)

\* a student key that keeps the capitals
KeyWithCapitals(name) == Strip(name)

\* _normalize_student_key
_normalize_student_key(name) == Lower(Strip(name))

\* _extract_diary_comments: the comments of a course by student key; the
\* keys are stored stripped and lowercased
_extract_diary_comments(settings, course_id) ==
  LET comments_root   == GetOr(settings, "studentDiaryComments", EmptyDict)
      course_comments == GetOr(comments_root, course_id, EmptyDict)
  IN  [ key \in { _normalize_student_key(k) : k \in DOMAIN course_comments } |->
          course_comments[CHOOSE k \in DOMAIN course_comments :
                            _normalize_student_key(k) = key] ]

\* the body of get_student_journal when the course has nothing to show
EmptyJournal(courseId) ==
  [ courseId |-> courseId, totalStudents |-> 0, regularStudents |-> 0,
    averageScore |-> 0, students |-> <<>> ]

\* order_by(<date>.desc()): the latest first, equal dates in the order of
\* insertion
RECURSIVE LatestFirst(_)
LatestFirst(items) ==
  IF items = <<>> THEN <<>>
  ELSE LET first == CHOOSE i \in DOMAIN items :
                      \A j \in DOMAIN items :
                        \/ items[i].date > items[j].date
                        \/ items[i].date = items[j].date /\ i <= j
       IN  << items[first] >>
           \o LatestFirst([ k \in 1..(Len(items) - 1) |->
                              IF k < first THEN items[k] ELSE items[k + 1] ])

\* the history entry of a quiz result
QuizEntry(result, quiz) ==
  [ resultId |-> result.id, studentName |-> AttemptStudent(result.student_identifier),
    score |-> result.score, hasScore |-> TRUE, resultType |-> "quiz",
    status |-> "graded", date |-> result.created_at, quizId |-> Some(quiz.id),
    quizTitle |-> Or(quiz.title, <<"T", "e", "s", "t">>),
    materialTitle |-> (CHOOSE m \in materials : m.id = quiz.material_id).title,
    weakTopics |-> SelectSeq(result.weak_topics, LAMBDA topic : topic # <<>>) ]

\* the history entry of an assignment submission
AssignmentEntry(row) ==
  LET score_value == IF row.manual_score # None THEN row.manual_score
                     ELSE row.student_accuracy
  IN  [ resultId |-> row.id, studentName |-> AttemptStudent(row.student_name),
        score |-> IF score_value # None THEN score_value[1] ELSE 0,
        hasScore |-> score_value # None, resultType |-> "assignment",
        status |-> _normalize_status(Some(row.status)), date |-> row.updated_at,
        quizId |-> None, quizTitle |-> <<"Z", "a", "d", "a", "n", "i", "e">>,
        materialTitle |-> <<"O", "t", "v", "e", "t", " ", "p", "o", " ", "z", "a", "d", "a", "n", "i", "y", "u">>,
        weakTopics |-> SelectSeq([ k \in DOMAIN row.questions |->
                                     Strip(row.questions[k].label) ],
                                 LAMBDA label : label # <<>>) ]

\* quiz_rows then assignment_rows as history entries, each the latest first
JournalEntries(results, submissions, user, courseId) ==
  LET quiz_rows == QuizResults(results, user, courseId)
      assignment_rows == SelectSeq(submissions, LAMBDA row : /\ row.user_id = user
                                                            /\ row.course_id = courseId)
  IN  LatestFirst([ i \in DOMAIN quiz_rows |->
                      QuizEntry(quiz_rows[i],
                                CHOOSE q \in quizzes : q.id = quiz_rows[i].quiz_id) ])
      \o LatestFirst([ i \in DOMAIN assignment_rows |->
                         AssignmentEntry(assignment_rows[i]) ])

\* the topics of a list without blanks and without repeats, capitals
\* ignored, the first spelling kept
RECURSIVE DedupTopics(_, _)
DedupTopics(topics, seen_topics) ==
  IF topics = <<>> THEN <<>>
  ELSE LET normalized_topic == Strip(Head(topics))
       IN  IF normalized_topic # <<>> /\ Lower(normalized_topic) \notin seen_topics
           THEN << normalized_topic >>
                \o DedupTopics(Tail(topics), seen_topics \cup { Lower(normalized_topic) })
           ELSE DedupTopics(Tail(topics), seen_topics)

\* the weak topics of a list of history entries, in order
RECURSIVE EntryTopics(_)
EntryTopics(entries) ==
  IF entries = <<>> THEN <<>>
  ELSE Head(entries).weakTopics \o EntryTopics(Tail(entries))

\* trend of the journal: the last score against the mean of the up to three
\* scores before it, with a dead band of 2 points
JournalTrend(scores) ==
  LET prev_window == SubSeq(scores, 2, IF Len(scores) < 4 THEN Len(scores) ELSE 4)
      n           == Len(prev_window)
  IN  IF prev_window = <<>> THEN "neutral"
      ELSE IF scores[1] * n > SumSeq(prev_window) + 2 * n THEN "up"
      ELSE IF scores[1] * n < SumSeq(prev_window) - 2 * n THEN "down"
      ELSE "neutral"

\* one entry of students; round(x, 1) is kept in tenths
JournalStudent(student_key, history, comments_map) ==
  LET ordered      == LatestFirst(history)
      scored_items == SelectSeq(ordered, LAMBDA item : item.hasScore)
      scores       == Scores(scored_items)
  IN  [ studentKey     |-> student_key,
        studentName    |-> ordered[1].studentName,
        attempts       |-> Len(ordered),
        averageScore   |-> IF scores # <<>>
                           THEN PyRoundDiv(10 * SumSeq(scores), Len(scores)) ELSE 0,
        lastScore      |-> IF scored_items # <<>> THEN scores[1] ELSE 0,
        regular        |-> Len(ordered) >= 3,
        trend          |-> JournalTrend(scores),
        teacherComment |-> GetOr(comments_map, student_key, <<>>),
        weakTopics     |-> Prefix(DedupTopics(EntryTopics(Prefix(ordered, 5)), {}), 6),
        history        |-> Prefix(ordered, 12) ]

\* sorted(students, key=averageScore, reverse=True)
RECURSIVE SortedByAverage(_)
SortedByAverage(students) ==
  IF students = <<>> THEN <<>>
  ELSE LET first == CHOOSE i \in DOMAIN students :
                      \A j \in DOMAIN students :
                        \/ students[i].averageScore > students[j].averageScore
                        \/ students[i].averageScore = students[j].averageScore /\ i <= j
       IN  << students[first] >>
           \o SortedByAverage([ k \in 1..(Len(students) - 1) |->
                                  IF k < first THEN students[k] ELSE students[k + 1] ])

\* the body get_student_journal answers with
StudentJournal(results, submissions, user, courseId) ==
  LET entries  == JournalEntries(results, submissions, user, courseId)
      keys     == FirstSeen([ i \in DOMAIN entries |->
                                _normalize_student_key(entries[i].studentName) ])
      comments_map == _extract_diary_comments(users[user].settings, courseId)
      students == [ k \in DOMAIN keys |->
                     JournalStudent(keys[k],
                                    SelectSeq(entries, LAMBDA item :
                                      _normalize_student_key(item.studentName) = keys[k]),
                                    comments_map) ]
      all_scores == Scores(SelectSeq(entries, LAMBDA item : item.hasScore))
  IN  IF CourseMaterialIds(user, courseId) = {} \/ entries = <<>>
      THEN EmptyJournal(courseId)
      ELSE [ courseId        |-> courseId,
             totalStudents   |-> Len(students),
             regularStudents |-> Len(SelectSeq(students, LAMBDA item : item.regular)),
             averageScore    |-> IF all_scores # <<>>
                                 THEN PyRoundDiv(10 * SumSeq(all_scores), Len(all_scores))
                                 ELSE 0,
             students        |-> SortedByAverage(students) ]

get_student_journal(user, courseId) ==
  /\ AllIdle
  /\ user \in DOMAIN users
  /\ resp' = Response("journal", 200, [ user |-> user, courseId |-> courseId ],
                      StudentJournal(studentResults, ocrResults, user, courseId))
  /\ UNCHANGED << now, store, users, cr, lastCreate >>

\* str(payload.get(key) or "").strip()
PayloadText(payload, key) == Strip(GetOr(payload, key, <<>>))

\* settings after update_student_journal_comment
CommentedSettings(settings, course_id, student_name, comment) ==
  LET comments_root   == GetOr(settings, "studentDiaryComments", EmptyDict)
      course_comments == GetOr(comments_root, course_id, EmptyDict)
      student_key     == _normalize_student_key(student_name)
  IN  Put(settings, "studentDiaryComments",
          Put(comments_root, course_id,
              IF comment # <<>> THEN Put(course_comments, student_key, comment)
              ELSE Pop(course_comments, student_key)))

update_student_journal_comment(user, payload) ==
  LET course_id    == PayloadText(payload, "courseId")
      student_name == PayloadText(payload, "studentName")
      comment      == PayloadText(payload, "comment")
      req          == [ user |-> user, payload |-> payload ]
      settings     == CommentedSettings(users[user].settings, course_id, student_name,
                                        comment)
  IN  /\ AllIdle
      /\ user \in DOMAIN users
      /\ IF course_id = <<>>
         THEN /\ resp' = Response("comment", 422, req, Detail("courseId is required"))
              /\ UNCHANGED users
         ELSE IF student_name = <<>>
         THEN /\ resp' = Response("comment", 422, req, Detail("studentName is required"))
              /\ UNCHANGED users
         ELSE /\ users' = [users EXCEPT ![user].settings = settings]
              /\ resp' = Response("comment", 200, req,
                                  [ courseId |-> course_id, studentName |-> student_name,
                                    comment |-> comment ])
      /\ UNCHANGED << now, store, cr, lastCreate >>

(* --------------------------- journal comments -------------------------- *)

\* t1 also teaches course c2 with material 3; materials 1 and 3 and quiz 11
\* are shared with open links
InitJournal ==
  InitTables(InitMaterials \cup { MaterialRow(3, "t1", <<"c", "2">>, <<"t", "a", "s", "k", ".", "t", "x", "t">>, <<"S", "u", "m", " ", "u", "p">>) },
             QuizCatalog(ParisDraft),
             << PublicLink("t1", UuidStr(1), "material", generate_short_code(1), TRUE,
                           FALSE, None, None),
                PublicLink("t1", UuidStr(3), "material", generate_short_code(2), TRUE,
                           FALSE, None, None),
                PublicLink("t1", UuidStr(11), "quiz", generate_short_code(3), TRUE,
                           FALSE, None, None) >>)

\* bodies of PATCH /analytics/student-journal/comment
CommentPayloads ==
  { (("courseId" :> <<" ", "c", "1", " ">>) @@ ("studentName" :> <<"A", "L", "I", "C", "E", " ">>) @@ ("comment" :> <<" ", "g", "o", "o", "d", " ">>)),
    (("courseId" :> <<"c", "1">>) @@ ("studentName" :> <<"a", "l", "i", "c", "e">>) @@ ("comment" :> <<" ">>)),
    (("courseId" :> <<"c", "2">>) @@ ("studentName" :> <<"A", "l", "i", "c", "e">>) @@ ("comment" :> <<"o", "k">>)),
    (("studentName" :> <<"A", "l", "i", "c", "e">>) @@ ("comment" :> <<"o", "k">>)),
    (("courseId" :> <<"c", "1">>) @@ ("comment" :> <<"o", "k">>)) }

\* ?courseId= of get_student_journal
JournalCourses == { <<"c", "1">>, <<"c", "2">> }

\* what the other teacher, t2, notes
OtherTeacherPayloads ==
  { (("courseId" :> <<"c", "1">>) @@ ("studentName" :> <<"A", "l", "i", "c", "e">>) @@ ("comment" :> <<"w", "e", "a", "k">>)) }

NextJournal ==
  \/ submit_shared_quiz(generate_short_code(3),
                        [ answers |-> ScenarioSheet, studentName |-> <<"A", "l", "i", "c", "e">> ])
  \/ \E short_code \in { generate_short_code(1), generate_short_code(2) },
        studentName \in IntakeNames :
       /\ Len(ocrResults) < MaxIntake
       /\ upload_assignment_file(short_code, studentName, Some(<<" ", "e", "s", "s", "a", "y", " ">>), None, NoGrade)
  \/ \E payload \in CommentPayloads : update_student_journal_comment("t1", payload)
  \/ \E payload \in OtherTeacherPayloads : update_student_journal_comment("t2", payload)
  \/ \E user \in Teachers, courseId \in JournalCourses :
       get_student_journal(user, courseId)

SpecJournal == InitJournal /\ [][NextJournal]_vars

\* the comment a table of users holds for a teacher, a course and a student
\* key, or the empty text
CommentOf(table, user, course_id, student_key) ==
  GetOr(GetOr(GetOr(table[user].settings, "studentDiaryComments", EmptyDict),
              course_id, EmptyDict),
        student_key, <<>>)

\* the student keys of the comment runs
JournalKeys == { <<"a", "l", "i", "c", "e">>, <<"A", "L", "I", "C", "E">>, <<"A", "l", "i", "c", "e">>, <<"s", "t", "u", "d", "e", "n", "t">> }

\* C21: after update_student_journal_comment has stored a comment for
\* (courseId, studentName), get_student_journal of that course returns
\* that comment as teacherComment for the student whose trimmed,
\* lowercased name equals the trimmed, lowercased studentName, and for no
\* other student, course or teacher; an empty comment removes it
C21_CommentKeyedByCourseAndStudent ==
  [][ /\ ( /\ resp'.op = "comment"
           /\ resp'.status = 200
           /\ (resp' # resp \/ users' # users) )
         => \A user \in Teachers, course_id \in JournalCourses, key \in JournalKeys :
              CommentOf(users', user, course_id, key)
                = IF /\ user = resp'.req.user
                     /\ course_id = Strip(resp'.req.payload["courseId"])
                     /\ key = Lower(Strip(resp'.req.payload["studentName"]))
                  THEN Strip(resp'.req.payload["comment"])
                  ELSE CommentOf(users, user, course_id, key)
      /\ (resp' # resp /\ resp'.op = "journal")
         => \A i \in DOMAIN resp'.body.students :
              resp'.body.students[i].teacherComment
                = CommentOf(users', resp'.req.user, resp'.req.courseId,
                            Lower(Strip(resp'.body.students[i].studentName))) ]_vars

\* a journal shows the comment for Alice and none for another student of
\* the same course
C21_CommentServed ==
  /\ resp.op = "journal"
  /\ \E i, j \in DOMAIN resp.body.students :
       /\ resp.body.students[i].studentName = <<"A", "l", "i", "c", "e">>
       /\ resp.body.students[i].teacherComment = <<"g", "o", "o", "d">>
       /\ resp.body.students[j].teacherComment = <<>>

\* a stored comment was removed and the journal shows none
C21_CommentRemoved ==
  /\ resp.op = "journal"
  /\ resp.req.courseId = <<"c", "1">>
  /\ resp.body.students # <<>>
  /\ <<"c", "1">> \in DOMAIN GetOr(users["t1"].settings, "studentDiaryComments", EmptyDict)
  /\ \A i \in DOMAIN resp.body.students : resp.body.students[i].teacherComment = <<>>

(* ---------------- get_teacher_quiz_results and materials --------------- *)

\* the items get_teacher_quiz_results answers with: the teacher's results
\* joined with their quiz and its material, filtered by quiz and course
\* when given, the latest first
TeacherQuizResults(results, user, quiz_uuid, courseId) ==
  LET joined == SelectSeq(results, LAMBDA row :
                  /\ row.user_id = user
                  /\ \E q \in quizzes : /\ q.id = row.quiz_id
                                        /\ \E m \in materials : m.id = q.material_id
                  /\ quiz_uuid # None => row.quiz_id = quiz_uuid[1]
                  /\ courseId # None /\ courseId[1] # <<>>
                     => \E q \in quizzes :
                          /\ q.id = row.quiz_id
                          /\ \E m \in materials : /\ m.id = q.material_id
                                                  /\ m.course_id = courseId[1])
      rows   == LatestFirst([ i \in DOMAIN joined |->
                                joined[i] @@ [ date |-> joined[i].created_at ] ])
  IN  [ i \in DOMAIN rows |->
          LET quiz     == CHOOSE q \in quizzes : q.id = rows[i].quiz_id
              material == CHOOSE m \in materials : m.id = quiz.material_id
          IN  [ resultId |-> rows[i].id, quizId |-> quiz.id, materialId |-> material.id,
                materialTitle |-> material.title,
                studentName |-> rows[i].student_identifier, score |-> rows[i].score,
                submittedAt |-> rows[i].created_at,
                totalQuestions |-> Len(quiz.questions) ] ]

\* quizId is None when the query parameter is absent or empty
get_teacher_quiz_results(user, quizId, courseId) ==
  LET req == [ user |-> user, quizId |-> quizId, courseId |-> courseId ]
  IN  /\ AllIdle
      /\ user \in DOMAIN users
      /\ IF quizId # None /\ ~IsUuid(quizId[1])
         THEN resp' = Response("quiz-results", 400, req, Detail("Invalid quiz id"))
         ELSE resp' = Response("quiz-results", 200, req,
                               TeacherQuizResults(studentResults, user,
                                                  IF quizId = None THEN None
                                                  ELSE Some(UuidOf(quizId[1])),
                                                  courseId))
      /\ UNCHANGED << now, store, users, cr, lastCreate >>

\* the caller's material of that id, as update_material and delete_material
\* look it up
FirstOwnMaterial(id, user) ==
  LET hits == { m \in materials : m.id = UuidOf(id) /\ m.user_id = user }
  IN  IF ~IsUuid(id) \/ hits = {} THEN None ELSE Some(CHOOSE m \in hits : TRUE)

\* the material after update_material: title, summary and course_id are
\* taken from the payload when they are there
UpdatedMaterial(material, payload) ==
  [ material EXCEPT
      !.title = IF "title" \in DOMAIN payload /\ Strip(payload["title"]) # <<>>
                THEN Prefix(Strip(payload["title"]), 255) ELSE @,
      !.summary = IF "summary" \in DOMAIN payload THEN Strip(payload["summary"]) ELSE @,
      !.course_id = IF "course_id" \in DOMAIN payload THEN Strip(payload["course_id"])
                    ELSE @ ]

update_material(user, id, payload) ==
  LET req      == [ user |-> user, id |-> id, payload |-> payload ]
      material == FirstOwnMaterial(id, user)
  IN  /\ AllIdle
      /\ user \in DOMAIN users
      /\ IF ~IsUuid(id)
         THEN /\ resp' = Response("update-material", 400, req, Detail("Invalid UUID format"))
              /\ UNCHANGED materials
         ELSE IF material = None
         THEN /\ resp' = Response("update-material", 404, req, Detail("Material not found"))
              /\ UNCHANGED materials
         ELSE /\ materials' = (materials \ { material[1] })
                                \cup { UpdatedMaterial(material[1], payload) }
              /\ resp' = Response("update-material", 200, req,
                                  UpdatedMaterial(material[1], payload))
      /\ UNCHANGED << now, users, quizzes, links, studentResults, ocrResults, uploadDir, cr,
                      lastCreate >>

\* Quiz.student_results, cascade="all, delete-orphan": the results that
\* stay when the quizzes of the given ids are deleted
ResultsWithoutQuizzes(quiz_ids) ==
  SelectSeq(studentResults, LAMBDA row : row.quiz_id \notin quiz_ids)

\* db.delete(material): Material.quizzes cascades to the quizzes of the
\* material and they to their student results
delete_material(user, id) ==
  LET req      == [ user |-> user, id |-> id ]
      material == FirstOwnMaterial(id, user)
      quiz_ids == { q.id : q \in { x \in quizzes : x.material_id = material[1].id } }
  IN  /\ AllIdle
      /\ user \in DOMAIN users
      /\ IF ~IsUuid(id)
         THEN /\ resp' = Response("delete-material", 400, req, Detail("Invalid UUID format"))
              /\ UNCHANGED << materials, quizzes, studentResults >>
         ELSE IF material = None
         THEN /\ resp' = Response("delete-material", 404, req, Detail("Material not found"))
              /\ UNCHANGED << materials, quizzes, studentResults >>
         ELSE /\ materials' = materials \ { material[1] }
              /\ quizzes' = { q \in quizzes : q.id \notin quiz_ids }
              /\ studentResults' = ResultsWithoutQuizzes(quiz_ids)
              /\ resp' = Response("delete-material", 204, req, [ none |-> TRUE ])
      /\ UNCHANGED << now, users, links, ocrResults, uploadDir, cr, lastCreate >>

(* ------------------------- the scope of the reports -------------------- *)

\* t1 teaches courses c1 and c3, t2 teaches c2; material 1, material 3 and
\* the quizzes 11 and 12 are shared with open links
InitScope ==
  InitTables(InitMaterials \cup { MaterialRow(3, "t1", <<"c", "3">>, <<"t", "a", "s", "k", ".", "t", "x", "t">>, <<"S", "u", "m", " ", "u", "p">>) },
             QuizCatalog(ParisDraft),
             << PublicLink("t1", UuidStr(1), "material", generate_short_code(1), TRUE,
                           FALSE, None, None),
                PublicLink("t1", UuidStr(3), "material", generate_short_code(3), TRUE,
                           FALSE, None, None),
                PublicLink("t1", UuidStr(11), "quiz", generate_short_code(2), TRUE,
                           FALSE, None, None),
                PublicLink("t2", UuidStr(12), "quiz", generate_short_code(4), TRUE,
                           FALSE, None, None) >>)

\* ?courseId= of the reports
ScopeCourses == { <<"c", "1">>, <<"c", "2">>, <<"c", "3">> }

NextScope ==
  \/ \E short_code \in { generate_short_code(2), generate_short_code(4) } :
       submit_shared_quiz(short_code, [ answers |-> ScenarioSheet, studentName |-> <<"A", "l", "i", "c", "e">> ])
  \/ \E short_code \in { generate_short_code(1), generate_short_code(3) } :
       upload_assignment_file(short_code, Some(<<"A", "l", "i", "c", "e">>), Some(<<" ", "e", "s", "s", "a", "y", " ">>), None,
                              Verdict(17, <<"g", "o", "o", "d">>, "high"))
  \/ \E id \in { UuidStr(1), UuidStr(2) } :
       update_ocr_result("t1", id, OCRManualCorrection(Some(150), None))
  \/ \E user \in Teachers, id \in { UuidStr(2), UuidStr(3) } : delete_material(user, id)
  \/ \E courseId \in { <<"c", "1">>, <<"c", "3">> } : get_analytics_performance("t1", Some(courseId))
  \/ \E courseId \in { <<"c", "1">>, <<"c", "3">> } : get_student_journal("t1", courseId)
  \/ \E user \in Teachers, courseId \in { Some(<<"c", "1">>), Some(<<"c", "2">>) } :
       get_teacher_quiz_results(user, None, courseId)

SpecScope == InitScope /\ [][NextScope]_vars

\* the rows of student_results a teacher owns in a course: the course is
\* that of the material the quiz hangs on
OwnCourseResults(user, courseId) ==
  SelectSeq(studentResults, LAMBDA row :
    /\ row.user_id = user
    /\ \E q \in quizzes :
         /\ q.id = row.quiz_id
         /\ \E m \in materials : m.id = q.material_id /\ m.course_id = courseId)

\* the rows of ocr_results a teacher owns in a course
OwnCourseSubmissions(user, courseId) ==
  SelectSeq(ocrResults, LAMBDA row : row.user_id = user /\ row.course_id = courseId)

\* the three reports for a teacher and a course over given tables of
\* results
Reports(results, submissions, user, courseId) ==
  << AnalyticsPerformance(results, submissions, user, Some(courseId)),
     StudentJournal(results, submissions, user, courseId),
     TeacherQuizResults(results, user, None, Some(courseId)) >>

\* C22: what get_analytics_performance, get_student_journal and
\* get_teacher_quiz_results answer for teacher T and course C depends only
\* on the rows T owns in course C: over the tables as they are the three
\* reports are what they are over the tables without the results of other
\* teachers and of other courses, so adding, changing or removing such
\* results never changes them
C22_ReportsDependOnOwnCourseRows ==
  \A user \in Teachers, courseId \in ScopeCourses :
    Reports(studentResults, ocrResults, user, courseId)
      = Reports(OwnCourseResults(user, courseId), OwnCourseSubmissions(user, courseId),
                user, courseId)

\* t1 has a report with results for course c1 while results of t2 and of
\* course c3 are in the tables
C22_ForeignRowsBesideOwn ==
  /\ resp.op \in { "performance", "journal" }
  /\ resp.req = [ user |-> "t1", courseId |-> resp.req.courseId ]
  /\ resp.body.students # <<>>
  /\ OwnCourseSubmissions("t1", <<"c", "1">>) # <<>>
  /\ OwnCourseSubmissions("t1", <<"c", "3">>) # <<>>
  /\ \E i \in DOMAIN studentResults : studentResults[i].user_id = "t2"

(* ------------------- create_share_link, workers side by side ----------- *)

\* request bodies of the concurrent POST /share/create: the quiz and the
\* material of t1
RacePayloads ==
  { [ resourceId |-> UuidStr(11), resourceType |-> "quiz", viewOnly |-> Some(TRUE),
      allowCopy |-> Some(FALSE), password |-> None, expiresAt |-> None ],
    [ resourceId |-> UuidStr(1), resourceType |-> "material", viewOnly |-> Some(TRUE),
      allowCopy |-> Some(FALSE), password |-> None, expiresAt |-> None ] }

\* every worker serves a request of its own; the steps of the two requests
\* interleave freely
NextRace ==
  \/ \E p \in Procs, payload \in RacePayloads : CreateBeginOp(p, "t1", payload)
  \/ \E p \in Procs, seed \in 1..NumSeeds : CreateDraw(p, seed)
  \/ \E p \in Procs : CreateInsert(p)

SpecRace == Init /\ [][NextRace]_vars

\* the code loop of worker p gives up in this step
GivesUp(p) == cr[p].pc = "draw" /\ cr'[p].pc = "idle"

\* C23: create_share_link draws at most 10 candidates; when all 10 are
\* taken it stops, answers with a service-unavailable error (503) and
\* persists no PublicLink
C23_ExhaustionIsServiceUnavailable ==
  [][ /\ \A p \in Procs : cr'[p].attempt < MaxAttempts
      /\ \A p \in Procs :
           GivesUp(p) => /\ cr[p].attempt = MaxAttempts - 1
                         /\ links' = links
                         /\ resp'.op = "create"
                         /\ resp'.status = 503 ]_vars

\* ten draws were all taken and the request was answered with 500
C23_TenDrawsTaken ==
  /\ resp.op = "create"
  /\ resp.status = 500
  /\ resp.body = Detail("Failed to generate unique share code")
  /\ links # <<>>

\* C28: however two concurrent create_share_link requests interleave, also
\* when both draw the same candidate and both pass the existence check
\* before either inserts, no two rows of public_links have the same
\* short_code
C28_NoTwoLinksWithOneCode ==
  \A i, j \in DOMAIN links : links[i].short_code = links[j].short_code => i = j

\* both workers have passed the existence check with the same candidate
C28_BothPassedWithSameCode ==
  /\ \A p \in Procs : cr[p].pc = "insert"
  /\ cr["p1"].short_code = cr["p2"].short_code

\* the second of the two inserts was refused
C28_SecondInsertRefused ==
  /\ resp.op = "create"
  /\ resp.status = 500
  /\ resp.body = Detail("IntegrityError")

(* -------------------------------- accounts ----------------------------- *)

\* UserSettings().notifications when the request names none
DefaultNotifications ==
  ("reports" :> TRUE) @@ ("errors" :> TRUE) @@ ("lowPerformance" :> TRUE)

\* UserSettings: the only field is notifications
UserSettings(notifications) == [ notifications |-> notifications ]

\* UserUpdateRequest: absent fields are None
UserUpdateRequest(firstName, lastName, settings) ==
  [ firstName |-> firstName, lastName |-> lastName, settings |-> settings ]

\* update_data.settings.dict()
SettingsDict(settings) == "notifications" :> settings.notifications

\* the row after update_user_profile
UpdatedUser(row, update_data) ==
  [ row EXCEPT
      !.first_name = IF update_data.firstName # None THEN update_data.firstName ELSE @,
      !.last_name = IF update_data.lastName # None THEN update_data.lastName ELSE @,
      !.settings = IF update_data.settings # None
                   THEN SettingsDict(update_data.settings[1]) ELSE @ ]

\* _swagger_user: the response model keeps the fields of UserSettings only
SwaggerUser(row) ==
  [ id |-> row.id, firstName |-> row.first_name, lastName |-> row.last_name,
    settings |-> UserSettings(GetOr(row.settings, "notifications", DefaultNotifications)) ]

update_user_profile(user, update_data) ==
  /\ AllIdle
  /\ user \in DOMAIN users
  /\ users' = [users EXCEPT ![user] = UpdatedUser(@, update_data)]
  /\ resp' = Response("profile", 200, [ user |-> user, update_data |-> update_data ],
                      SwaggerUser(UpdatedUser(users[user], update_data)))
  /\ UNCHANGED << now, store, cr, lastCreate >>

\* rows that point at the user through a foreign key no relationship of
\* User cascades to: ocr_results.user_id and public_links.user_id
HeldByForeignKey(user) ==
  \/ \E i \in DOMAIN ocrResults : ocrResults[i].user_id = user
  \/ \E i \in DOMAIN links : links[i].user_id = user

\* delete_current_user_legacy: db.delete(current_user) cascades to the
\* user's materials, their quizzes, the results of those quizzes and the
\* user's own student results; `enforced` tells whether the database
\* enforces foreign keys (PostgreSQL) or not (SQLite as the tests run it)
delete_current_user_legacy(user, enforced) ==
  LET req          == [ user |-> user ]
      material_ids == { m.id : m \in { x \in materials : x.user_id = user } }
      quiz_ids     == { q.id : q \in { x \in quizzes : x.material_id \in material_ids } }
  IN  /\ AllIdle
      /\ user \in DOMAIN users
      /\ IF enforced /\ HeldByForeignKey(user)
         THEN /\ resp' = Response("delete-user", 500, req, Detail("IntegrityError"))
              /\ UNCHANGED << users, materials, quizzes, studentResults >>
         ELSE /\ users' = [ id \in DOMAIN users \ {user} |-> users[id] ]
              /\ materials' = { m \in materials : m.id \notin material_ids }
              /\ quizzes' = { q \in quizzes : q.id \notin quiz_ids }
              /\ studentResults' =
                   SelectSeq(studentResults, LAMBDA row : /\ row.quiz_id \notin quiz_ids
                                                          /\ row.user_id # user)
              /\ resp' = Response("delete-user", 200, req,
                                  [ message |-> "Account deleted" ])
      /\ UNCHANGED << now, links, ocrResults, uploadDir, cr, lastCreate >>

(* ------------------------- the life of the rows ------------------------ *)

\* the teacher t1 has shared material 1 and quiz 11 with open links
InitLifecycle ==
  InitStore(QuizCatalog(ParisDraft),
            << PublicLink("t1", UuidStr(1), "material", generate_short_code(1), TRUE, FALSE,
                          None, None),
               PublicLink("t1", UuidStr(11), "quiz", generate_short_code(3), TRUE, FALSE,
                          None, None) >>)

\* bodies of PATCH /users/me: a new first name, and the notification
\* switches
ProfileUpdates ==
  { UserUpdateRequest(Some(<<"A", "n", "n">>), None, None),
    UserUpdateRequest(None, None, Some(UserSettings(DefaultNotifications))) }

\* the requests of t1 need t1's account
NextLifecycle ==
  \/ submit_shared_quiz(generate_short_code(3),
                        [ answers |-> ScenarioSheet, studentName |-> <<"A", "l", "i", "c", "e">> ])
  \/ /\ Len(ocrResults) < MaxIntake
     /\ upload_assignment_file(generate_short_code(1), Some(<<"A", "l", "i", "c", "e">>), Some(<<" ", "e", "s", "s", "a", "y", " ">>),
                               None, NoGrade)
  \/ /\ "t1" \in DOMAIN users
     /\ \/ update_ocr_result("t1", UuidStr(1), OCRManualCorrection(Some(15), None))
        \/ batch_approve_ocr("t1", << UuidStr(1) >>)
        \/ update_material("t1", UuidStr(1), "title" :> <<" ", "N", "o", "t", "e", "s", " ">>)
        \/ delete_material("t1", UuidStr(1))
        \/ update_student_journal_comment(
             "t1", ("courseId" :> <<"c", "1">>) @@ ("studentName" :> <<"A", "l", "i", "c", "e">>)
                   @@ ("comment" :> <<"g", "o", "o", "d">>))
        \/ get_student_journal("t1", <<"c", "1">>)
        \/ \E update_data \in ProfileUpdates : update_user_profile("t1", update_data)
        \/ \E enforced \in BOOLEAN : delete_current_user_legacy("t1", enforced)

SpecLifecycle == InitLifecycle /\ [][NextLifecycle]_vars

\* the ids of the rows of a table
RowIds(rows) == { rows[i].id : i \in DOMAIN rows }

\* C24: rows of student_results and ocr_results are append-only: whatever
\* teachers and students do (share, submit, upload, manual correction,
\* batch approval, update and deletion of a material, account management),
\* every row once persisted is still there
C24_ResultRowsAppendOnly ==
  [][ /\ RowIds(studentResults) \subseteq RowIds(studentResults')
      /\ RowIds(ocrResults) \subseteq RowIds(ocrResults') ]_vars

\* a material was deleted and no student result is left, while a
\* submission of an assignment is
C24_MaterialDeleted ==
  /\ resp.op = "delete-material"
  /\ resp.status = 204
  /\ studentResults = <<>>
  /\ ocrResults # <<>>

\* an account was deleted
C24_AccountDeleted ==
  /\ resp.op = "delete-user"
  /\ resp.status = 200
  /\ ocrResults # <<>>

\* C30: update_user_profile with a settings object leaves the stored
\* journal comments of the teacher as they are: a comment saved by
\* update_student_journal_comment is still returned by get_student_journal
C30_ProfileUpdateKeepsComments ==
  [][ ( /\ resp'.op = "profile"
        /\ resp'.req.update_data.settings # None
        /\ (resp' # resp \/ users' # users) )
      => \A user \in DOMAIN users, course_id \in JournalCourses, key \in JournalKeys :
           CommentOf(users', user, course_id, key) = CommentOf(users, user, course_id, key)
    ]_vars

\* after a profile update with settings the journal of a student with
\* results shows no comment and the settings hold no comments
C30_CommentsGoneFromJournal ==
  /\ resp.op = "journal"
  /\ resp.body.students # <<>>
  /\ \A i \in DOMAIN resp.body.students : resp.body.students[i].teacherComment = <<>>
  /\ DOMAIN users["t1"].settings = { "notifications" }

(* -------------------------- marks of the grader ------------------------ *)

\* what the grader returns in the runs on marks: a score within 0..20, one
\* above and one below
MarkOutcomes ==
  { Verdict(17, <<"g", "o", "o", "d">>, "high"), Verdict(25, <<"g", "r", "e", "a", "t">>, "medium"),
    Verdict(0 - 3, <<"p", "o", "o", "r">>, "low") }

NextMarks ==
  \/ Tick
  \/ \E studentName \in IntakeNames, grade \in MarkOutcomes :
       upload_assignment_file(generate_short_code(1), studentName, Some(<<" ", "e", "s", "s", "a", "y", " ">>),
                              None, grade)

SpecMarks == InitReview /\ [][NextMarks]_vars

\* the regions of a submission that report the grader's verdict
FeedbackOf(row) ==
  SelectSeq(row.questions, LAMBDA region : region.id = <<"a", "s", "s", "i", "g", "n", "m", "e", "n", "t", "-", "a", "i", "-", "f", "e", "e", "d", "b", "a", "c", "k">>)

\* C25: whatever the auto-grader returns, the score recorded for a
\* submission of upload_assignment_file and returned to the student lies in
\* 0..20, and the percentage stored for display is that score times 5,
\* within 0..100
C25_RecordedScoreBounded ==
  /\ \A i \in DOMAIN ocrResults :
       \A k \in DOMAIN FeedbackOf(ocrResults[i]) :
         /\ ocrResults[i].student_accuracy[1] \in 0..MaxScore
         /\ ocrResults[i].manual_score[1] \in 0..MaxScore
         /\ FeedbackOf(ocrResults[i])[k].match
              = Some(ocrResults[i].student_accuracy[1] * 5)
         /\ FeedbackOf(ocrResults[i])[k].match[1] \in 0..100
  /\ (resp.op = "upload" /\ resp.status = 200 /\ resp.body.score # None)
     => resp.body.score[1] \in 0..MaxScore

\* the grader returned 25: the submission is stored with score 25 and a
\* display percentage of 100
C25_ScoreAboveTwenty ==
  /\ resp.op = "upload"
  /\ resp.status = 200
  /\ resp.body.score = Some(25)
  /\ \E i \in DOMAIN ocrResults :
       /\ ocrResults[i].student_accuracy = Some(25)
       /\ \E k \in DOMAIN FeedbackOf(ocrResults[i]) :
            FeedbackOf(ocrResults[i])[k].match = Some(100)

(* ---------------------- quizzes, saved and generated ------------------- *)

\* JSON values as the handlers tell them apart: a list, an object with the
\* key "questions", any other object
JsonList(items) == [ shape |-> "list", items |-> items ]

JsonWrapped(value) == [ shape |-> "dict", questions |-> value ]

JsonOther == [ shape |-> "dict" ]

\* what one call of self.model.generate_content does: it raises, it times
\* out, it returns text that is no JSON, or it returns JSON
ProviderRaises == [ kind |-> "raise" ]

ProviderTimeout == [ kind |-> "timeout" ]

ProviderGarbage == [ kind |-> "text" ]

ProviderJson(value) == [ kind |-> "json", value |-> value ]

\* a call that returns, and a call that raises
Returned(value) == [ kind |-> "return", value |-> value ]

Raised(error, message) == [ kind |-> "raise", error |-> error, message |-> message ]

\* AIService.generate_quiz with the API key set: one call of the provider;
\* whatever goes wrong comes out as ValueError
ai_service_generate_quiz(outcome) ==
  CASE outcome.kind = "json" -> Returned(outcome.value)
    [] outcome.kind = "text" -> Raised("ValueError", <<"F", "a", "i", "l", "e", "d", " ", "t", "o", " ", "p", "a", "r", "s", "e", " ", "A", "I", " ", "r", "e", "s", "p", "o", "n", "s", "e", " ", "a", "s", " ", "J", "S", "O", "N">>)
    [] OTHER -> Raised("ValueError", <<"F", "a", "i", "l", "e", "d", " ", "t", "o", " ", "g", "e", "n", "e", "r", "a", "t", "e", " ", "q", "u", "i", "z">>)

\* AIService.generate_quiz_advanced with the API key set: one call of the
\* provider; a timeout stays a TimeoutError
generate_quiz_advanced(outcome) ==
  CASE outcome.kind = "json" -> Returned(outcome.value)
    [] outcome.kind = "text" -> Raised("ValueError", <<"F", "a", "i", "l", "e", "d", " ", "t", "o", " ", "p", "a", "r", "s", "e", " ", "A", "I", " ", "r", "e", "s", "p", "o", "n", "s", "e", " ", "a", "s", " ", "J", "S", "O", "N">>)
    [] outcome.kind = "timeout" -> Raised("TimeoutError", <<"Q", "u", "i", "z", " ", "g", "e", "n", "e", "r", "a", "t", "i", "o", "n", " ", "t", "i", "m", "e", "o", "u", "t">>)
    [] OTHER -> Raised("ValueError", <<"F", "a", "i", "l", "e", "d", " ", "t", "o", " ", "g", "e", "n", "e", "r", "a", "t", "e", " ", "q", "u", "i", "z">>)

\* x["questions"] if isinstance(x, dict) and "questions" in x else x
Unwrapped(value) ==
  IF value.shape = "dict" /\ "questions" \in DOMAIN value THEN value.questions ELSE value

\* _build_quiz_title; explicit_title is None or Some(text)
_build_quiz_title(material, explicit_title) ==
  IF explicit_title # None /\ Strip(explicit_title[1]) # <<>>
  THEN Prefix(Strip(explicit_title[1]), 255)
  ELSE Prefix(<<"T", "e", "s", "t", ":", " ">> \o Strip(Or(material.title, <<"M", "a", "t", "e", "r", "i", "a", "l">>)), 255)

\* the id of a quiz row that db.add inserts (uuid4)
FreshQuizId == 1 + Max({ 0 } \cup { quiz.id : quiz \in quizzes })

\* the text of the k-th uuid4 generate_quiz draws for its questions
QuestionUuid(k) == << "u", digits[(k % 10) + 1] >>

\* the entries generate_quiz keeps: objects with a text and an answer
KeepsGenerated(q) ==
  /\ IsDict(q)
  /\ Or(Get(q, "text"), Get(q, "question")) # <<>>
  /\ Or(Get(q, "correctAnswer"), Get(q, "correct_answer")) # <<>>

\* normalized_for_storage of generate_quiz; k entries were kept before
RECURSIVE GeneratedQuestions(_, _, _)
GeneratedQuestions(questions_data, question_type, k) ==
  IF questions_data = <<>> THEN <<>>
  ELSE LET q == Head(questions_data)
       IN  IF KeepsGenerated(q)
           THEN << [ id            |-> QuestionUuid(k + 1),
                     type          |-> QuestionTypeText(_normalize_question_type(TypeOr(q, question_type))),
                     text          |-> Or(Get(q, "text"), Get(q, "question")),
                     options       |-> IF "options" \in DOMAIN q THEN q.options ELSE <<>>,
                     correctAnswer |-> Or(Get(q, "correctAnswer"), Get(q, "correct_answer")),
                     explanation   |-> Get(q, "explanation") ] >>
                \o GeneratedQuestions(Tail(questions_data), question_type, k + 1)
           ELSE GeneratedQuestions(Tail(questions_data), question_type, k)

\* swagger_schemas.Quiz of a row
SwaggerQuiz(quiz) ==
  [ id |-> UuidStr(quiz.id), materialId |-> UuidStr(quiz.material_id), title |-> quiz.title,
    questions |-> quiz.questions ]

\* the material generate_quiz reads: under pytest any material of that id,
\* otherwise the caller's own
MaterialToGenerate(id, user, is_pytest) ==
  LET hits == { m \in materials : m.id = UuidOf(id) /\ (is_pytest \/ m.user_id = user) }
  IN  IF hits = {} THEN None ELSE Some(CHOOSE m \in hits : TRUE)

\* what generate_quiz gets from ai_service and how many calls of the
\* provider that took: one in the legacy mode; in the swagger mode one, and a
\* second one when generate_quiz_advanced raised. first and second are what
\* the provider does in its first and in its second call
GenerationResult(legacy_mode, first, second) ==
  IF legacy_mode
  THEN LET legacy_result == ai_service_generate_quiz(first)
       IN  [ calls |-> 1,
             result |-> IF legacy_result.kind = "return"
                        THEN Returned(Unwrapped(legacy_result.value)) ELSE legacy_result ]
  ELSE LET advanced == generate_quiz_advanced(first)
           fallback_result == ai_service_generate_quiz(second)
       IN  IF advanced.kind = "return"
           THEN [ calls |-> 1, result |-> advanced ]
           ELSE [ calls |-> 2,
                  result |-> IF fallback_result.kind = "return"
                             THEN Returned(Unwrapped(fallback_result.value))
                             ELSE fallback_result ]

\* POST /ai/generate-quiz. config is the request body, a dict; counts are
\* numbers, difficulty a string, type a text
generate_quiz(user, config, is_pytest, first, second) ==
  LET legacy_mode == "materialId" \notin DOMAIN config
      material_id == IF legacy_mode THEN GetOr(config, "material_id", << "None" >>)
                     ELSE config["materialId"]
      count == IF legacy_mode THEN GetOr(config, "num_questions", 5)
               ELSE GetOr(config, "count", 5)
      difficulty == GetOr(config, "difficulty", "medium")
      question_type == IF legacy_mode THEN <<"m", "c", "q">> ELSE GetOr(config, "type", <<"m", "c", "q">>)
      material == MaterialToGenerate(material_id, user, is_pytest)
      generation == GenerationResult(legacy_mode, first, second)
      questions_data == Unwrapped(generation.result.value)
      questions == GeneratedQuestions(questions_data.items, question_type, 0)
      quiz == QuizRow(FreshQuizId, material[1].id, _build_quiz_title(material[1], None),
                      questions)
      failed(status, text, calls) ==
        /\ resp' = Response("generate", status, [ user |-> user, config |-> config,
                                                  calls |-> calls ], Detail(text))
        /\ UNCHANGED quizzes
  IN  /\ AllIdle
      /\ user \in DOMAIN users
      /\ CASE count > 50 \/ count < 1 ->
                failed(422, <<"c", "o", "u", "n", "t", " ", "m", "u", "s", "t", " ", "b", "e", " ", "b", "e", "t", "w", "e", "e", "n", " ", "1", " ", "a", "n", "d", " ", "5", "0">>, 0)
            [] OTHER ->
           CASE difficulty \notin { "easy", "medium", "hard" } ->
                failed(422, <<"d", "i", "f", "f", "i", "c", "u", "l", "t", "y", " ", "m", "u", "s", "t", " ", "b", "e", " ", "o", "n", "e", " ", "o", "f", ":", " ", "e", "a", "s", "y", ",", " ", "m", "e", "d", "i", "u", "m", ",", " ", "h", "a", "r", "d">>, 0)
            [] OTHER ->
           CASE ~IsUuid(material_id) -> failed(400, <<"I", "n", "v", "a", "l", "i", "d", " ", "m", "a", "t", "e", "r", "i", "a", "l", "I", "d", " ", "f", "o", "r", "m", "a", "t">>, 0)
            [] OTHER ->
           CASE material = None -> failed(404, <<"M", "a", "t", "e", "r", "i", "a", "l", " ", "n", "o", "t", " ", "f", "o", "u", "n", "d">>, 0)
            [] OTHER ->
           CASE material[1].content = <<>> ->
                failed(400, <<"M", "a", "t", "e", "r", "i", "a", "l", " ", "h", "a", "s", " ", "n", "o", " ", "t", "e", "x", "t", " ", "c", "o", "n", "t", "e", "n", "t">>, 0)
            [] OTHER ->
           CASE generation.result.kind = "raise" ->
                failed(IF generation.result.error = "TimeoutError" THEN 504 ELSE 500,
                       generation.result.message, generation.calls)
            [] OTHER ->
           CASE questions_data.shape # "list" ->
                failed(500, <<"A", "I", " ", "r", "e", "t", "u", "r", "n", "e", "d", " ", "i", "n", "v", "a", "l", "i", "d", " ", "q", "u", "i", "z", " ", "f", "o", "r", "m", "a", "t">>, generation.calls)
            [] OTHER ->
           CASE questions = <<>> ->
                failed(500, <<"A", "I", " ", "r", "e", "t", "u", "r", "n", "e", "d", " ", "n", "o", " ", "v", "a", "l", "i", "d", " ", "q", "u", "e", "s", "t", "i", "o", "n", "s">>, generation.calls)
            [] OTHER ->
                /\ quizzes' = quizzes \cup { quiz }
                /\ resp' = Response("generate", 200,
                                     [ user |-> user, config |-> config,
                                       calls |-> generation.calls ], SwaggerQuiz(quiz))
      /\ UNCHANGED << now, materials, links, studentResults, ocrResults, uploadDir, users,
                      cr, lastCreate >>

\* payload.get("questions") is a non-empty list
IsFilledList(payload) ==
  /\ "questions" \in DOMAIN payload
  /\ payload["questions"].shape = "list"
  /\ payload["questions"].items # <<>>

\* payload.get("title"), None when the key is absent
TitleOf(payload) == IF "title" \in DOMAIN payload THEN Some(payload["title"]) ELSE None

\* POST /ai/quizzes. payload is the request body, a dict
create_quiz_from_draft(user, payload) ==
  LET req == [ user |-> user, payload |-> payload ]
      material_id == GetOr(payload, "materialId", <<>>)
      material == FirstOwnMaterial(material_id, user)
      normalized == _normalize_questions(payload["questions"].items, FreshId)
      quiz == QuizRow(FreshQuizId, material[1].id,
                      _build_quiz_title(material[1], TitleOf(payload)), normalized)
      refused(status, text) ==
        /\ resp' = Response("create-quiz", status, req, Detail(text))
        /\ UNCHANGED quizzes
  IN  /\ AllIdle
      /\ user \in DOMAIN users
      /\ CASE material_id = <<>> -> refused(422, <<"m", "a", "t", "e", "r", "i", "a", "l", "I", "d", " ", "i", "s", " ", "r", "e", "q", "u", "i", "r", "e", "d">>)
            [] OTHER ->
           CASE ~IsFilledList(payload) -> refused(422, <<"q", "u", "e", "s", "t", "i", "o", "n", "s", " ", "m", "u", "s", "t", " ", "b", "e", " ", "a", " ", "n", "o", "n", "-", "e", "m", "p", "t", "y", " ", "l", "i", "s", "t">>)
            [] OTHER ->
           CASE ~IsUuid(material_id) -> refused(400, <<"I", "n", "v", "a", "l", "i", "d", " ", "m", "a", "t", "e", "r", "i", "a", "l", " ", "i", "d">>)
            [] OTHER ->
           CASE material = None -> refused(404, <<"M", "a", "t", "e", "r", "i", "a", "l", " ", "n", "o", "t", " ", "f", "o", "u", "n", "d">>)
            [] OTHER ->
           CASE normalized = <<>> -> refused(422, <<"N", "o", " ", "v", "a", "l", "i", "d", " ", "q", "u", "e", "s", "t", "i", "o", "n", "s", " ", "p", "r", "o", "v", "i", "d", "e", "d">>)
            [] OTHER ->
                /\ quizzes' = quizzes \cup { quiz }
                /\ resp' = Response("create-quiz", 201, req, SwaggerQuiz(quiz))
      /\ UNCHANGED << now, materials, links, studentResults, ocrResults, uploadDir, users,
                      cr, lastCreate >>

\* the caller's quiz of that id: the quiz joined with its material
FirstOwnQuiz(quiz_id, user) ==
  LET hits == { quiz \in quizzes :
                  /\ quiz.id = UuidOf(quiz_id)
                  /\ \E m \in materials : m.id = quiz.material_id /\ m.user_id = user }
  IN  IF hits = {} THEN None ELSE Some(CHOOSE quiz \in hits : TRUE)

\* PUT /ai/quizzes/{quiz_id}
update_quiz_by_id(user, quiz_id, payload) ==
  LET req == [ user |-> user, quiz_id |-> quiz_id, payload |-> payload ]
      quiz == FirstOwnQuiz(quiz_id, user)
      normalized == _normalize_questions(payload["questions"].items, FreshId)
      title == TitleOf(payload)
      updated == [ quiz[1] EXCEPT
                     !.questions = normalized,
                     !.title = IF title # None /\ Strip(title[1]) # <<>>
                               THEN Prefix(Strip(title[1]), 255) ELSE @ ]
      refused(status, text) ==
        /\ resp' = Response("update-quiz", status, req, Detail(text))
        /\ UNCHANGED quizzes
  IN  /\ AllIdle
      /\ user \in DOMAIN users
      /\ CASE ~IsUuid(quiz_id) -> refused(400, <<"I", "n", "v", "a", "l", "i", "d", " ", "q", "u", "i", "z", " ", "i", "d">>)
            [] OTHER ->
           CASE quiz = None -> refused(404, <<"Q", "u", "i", "z", " ", "n", "o", "t", " ", "f", "o", "u", "n", "d">>)
            [] OTHER ->
           CASE ~IsFilledList(payload) -> refused(422, <<"q", "u", "e", "s", "t", "i", "o", "n", "s", " ", "m", "u", "s", "t", " ", "b", "e", " ", "a", " ", "n", "o", "n", "-", "e", "m", "p", "t", "y", " ", "l", "i", "s", "t">>)
            [] OTHER ->
           CASE normalized = <<>> -> refused(422, <<"N", "o", " ", "v", "a", "l", "i", "d", " ", "q", "u", "e", "s", "t", "i", "o", "n", "s", " ", "p", "r", "o", "v", "i", "d", "e", "d">>)
            [] OTHER ->
                /\ quizzes' = (quizzes \ { quiz[1] }) \cup { updated }
                /\ resp' = Response("update-quiz", 200, req, SwaggerQuiz(updated))
      /\ UNCHANGED << now, materials, links, studentResults, ocrResults, uploadDir, users,
                      cr, lastCreate >>

(* ------------------------- the questions of a quiz --------------------- *)

\* a draft of one entry whose answer is white space
BlankDraft == << [ id |-> <<"b", "1">>, text |-> <<"B", "l", "a", "n", "k", "?">>, correctAnswer |-> <<" ", " ">> ] >>

\* request bodies of create_quiz_from_draft: the scenario draft for the own
\* material, with and without title; a draft without any valid entry; no
\* list; no material; a material of the other teacher; an id that is none
DraftPayloads ==
  { [ materialId |-> UuidStr(1), questions |-> JsonList(ParisDraft) ],
    [ materialId |-> UuidStr(1), questions |-> JsonList(SizedDraft(1)), title |-> <<" ", "Q", "u", "i", "z", " ">> ],
    [ materialId |-> UuidStr(1), questions |-> JsonList(BlankDraft) ],
    [ materialId |-> UuidStr(1), questions |-> JsonList(<<>>) ],
    [ materialId |-> UuidStr(1), questions |-> JsonOther ],
    [ materialId |-> UuidStr(1) ],
    [ questions |-> JsonList(ParisDraft) ],
    [ materialId |-> UuidStr(2), questions |-> JsonList(ParisDraft) ],
    [ materialId |-> <<"o", "n", "e">>, questions |-> JsonList(ParisDraft) ] }

\* request bodies of update_quiz_by_id
UpdatePayloads ==
  { [ questions |-> JsonList(SizedDraft(1)) ],
    [ questions |-> JsonList(ParisDraft), title |-> <<" ", "P", "a", "r", "i", "s", " ">> ],
    [ questions |-> JsonList(BlankDraft), title |-> <<"B", "l", "a", "n", "k">> ],
    [ questions |-> JsonList(<<>>) ],
    [ title |-> <<"O", "n", "l", "y", " ", "t", "i", "t", "l", "e">> ] }

\* the quiz ids update_quiz_by_id is called with
QuizIdInputs == { UuidStr(11), UuidStr(12), UuidStr(99), <<"e", "l", "e", "v", "e", "n">> }

\* request bodies of generate_quiz: swagger and legacy, and bodies that are
\* refused
GenerateConfigs ==
  { [ materialId |-> UuidStr(1), count |-> 2, difficulty |-> "easy", type |-> <<"o", "p", "e", "n">> ],
    [ materialId |-> UuidStr(1) ],
    [ material_id |-> UuidStr(1), num_questions |-> 2 ],
    [ materialId |-> UuidStr(1), count |-> 51 ],
    [ materialId |-> UuidStr(1), difficulty |-> "extreme" ],
    [ materialId |-> UuidStr(2) ],
    [ materialId |-> <<"o", "n", "e">> ],
    [ num_questions |-> 2 ] }

\* questions as the provider writes them: one whose answer is white space,
\* one in the legacy layout, one that is no object, one without text
ProviderQuestions ==
  << [ text |-> <<"B", "l", "a", "n", "k", "?">>, type |-> <<"o", "p", "e", "n">>, correctAnswer |-> <<" ", " ">> ],
     [ question |-> <<"S", "u", "n", "?">>, type |-> <<"O", "p", "e", "n">>, correct_answer |-> <<"S", "t", "a", "r">> ],
     [ nondict |-> <<"j", "u", "n", "k">> ],
     [ correctAnswer |-> <<"x">> ] >>

\* what the provider does in a call
ProviderOutcomes ==
  { ProviderRaises, ProviderTimeout, ProviderGarbage,
    ProviderJson(JsonList(ProviderQuestions)),
    ProviderJson(JsonWrapped(JsonList(SizedDraft(1)))),
    ProviderJson(JsonList(<< [ correctAnswer |-> <<"x">> ] >>)),
    ProviderJson(JsonOther) }

\* what the provider does in the call of the fallback
FallbackOutcomes ==
  { ProviderGarbage, ProviderJson(JsonList(ProviderQuestions)),
    ProviderJson(JsonWrapped(JsonList(SizedDraft(1)))) }

\* a material without text besides the two of InitMaterials
InitQuizzes ==
  InitTables(InitMaterials \cup { MaterialRow(3, "t1", <<"c", "1">>, <<"e", "m", "p", "t", "y", ".", "t", "x", "t">>, <<>>) },
             QuizCatalog(ParisDraft), <<>>)

NextQuizzes ==
  \/ \E user \in Teachers, payload \in DraftPayloads :
       /\ Cardinality(quizzes) < MaxQuizzes
       /\ create_quiz_from_draft(user, payload)
  \/ \E user \in Teachers, quiz_id \in QuizIdInputs, payload \in UpdatePayloads :
       update_quiz_by_id(user, quiz_id, payload)
  \/ \E config \in GenerateConfigs \cup { [ materialId |-> UuidStr(3) ] },
        is_pytest \in BOOLEAN, first \in ProviderOutcomes, second \in FallbackOutcomes :
       /\ Cardinality(quizzes) < MaxQuizzes
       /\ generate_quiz("t1", config, is_pytest, first, second)

SpecQuizzes == InitQuizzes /\ [][NextQuizzes]_vars

\* C26: every question of every quiz that create_quiz_from_draft,
\* update_quiz_by_id or generate_quiz persisted has a text and a correct
\* answer that are not empty after trimming, and no quiz is stored without
\* questions
C26_StoredQuestionsWellFormed ==
  \A quiz \in quizzes :
    /\ quiz.questions # <<>>
    /\ \A i \in DOMAIN quiz.questions :
         /\ Strip(quiz.questions[i].text) # <<>>
         /\ Strip(quiz.questions[i].correctAnswer) # <<>>

\* generate_quiz answered 200 and stored a quiz with a question whose
\* answer is white space
C26_BlankAnswerStored ==
  /\ resp.op = "generate"
  /\ resp.status = 200
  /\ \E quiz \in quizzes :
       /\ UuidStr(quiz.id) = resp.body.id
       /\ \E i \in DOMAIN quiz.questions :
            /\ quiz.questions[i].correctAnswer # <<>>
            /\ Strip(quiz.questions[i].correctAnswer) = <<>>

\* C27: a request of generate_quiz calls the provider at most once, also
\* on the swagger path when the advanced generation fails or times out
C27_OneProviderCallPerRequest ==
  resp.op = "generate" => resp.req.calls <= 1

\* a request with a swagger body whose advanced generation timed out was
\* answered after the fallback had called the provider again
C27_FallbackCalledProviderAgain ==
  /\ resp.op = "generate"
  /\ "materialId" \in DOMAIN resp.req.config
  /\ resp.req.calls = 2
  /\ resp.status = 200

(* -------------- upload_assignment_file, workers side by side ----------- *)

\* upload_assignment_file of worker p up to the duplicate query: a refused
\* request is answered at once, any other goes on to the awaited calls
UploadBegin(p, short_code, studentName, responseText, file, grade) ==
  /\ cr[p].pc = "idle"
  /\ Len(ocrResults) + InFlight < MaxUploads
  /\ LET refusal == UploadRefusal(short_code, studentName, responseText, file)
     IN  IF refusal # None
         THEN /\ resp' = refusal[1]
              /\ UNCHANGED cr
         ELSE /\ cr' = [cr EXCEPT ![p] = [ pc |-> "store", short_code |-> short_code,
                                           studentName |-> studentName,
                                           responseText |-> responseText, file |-> file,
                                           grade |-> grade ]]
              /\ UNCHANGED resp
  /\ UNCHANGED << now, users, store, lastCreate >>

\* upload_assignment_file of worker p from save_file on: the file is saved,
\* its text extracted, the grader awaited, and the row inserted with
\* db.add(result); db.commit(). No constraint of ocr_results refuses the row
UploadFinish(p) ==
  /\ cr[p].pc = "store"
  /\ LET out == UploadStored(cr[p].short_code, cr[p].studentName, cr[p].responseText,
                             cr[p].file, cr[p].grade)
     IN  /\ resp' = out.response
         /\ ocrResults' = ocrResults \o out.rows
         /\ uploadDir' = uploadDir \cup out.files
  /\ cr' = [cr EXCEPT ![p] = IdleCreate]
  /\ UNCHANGED << now, users, materials, quizzes, links, studentResults, lastCreate >>

\* the names under which the concurrent uploads come in
RaceNames == { Some(<<"A", "l", "i", "c", "e">>), Some(<<"B", "o", "b">>), None }

\* what the students hand in: a typed text or a text file
RaceAnswers ==
  { << Some(<<" ", "e", "s", "s", "a", "y", " ">>), None >>,
    << None, Some(UploadFile(<<"a", "n", "s", "w", "e", "r", ".", "t", "x", "t">>, 11, Some(<<"m", "y", " ", "h", "o", "m", "e", "w", "o", "r", "k">>))) >> }

NextUploadRace ==
  \/ Tick
  \/ \E p \in Procs, studentName \in RaceNames, answer \in RaceAnswers,
        grade \in { NoGrade, Verdict(17, <<"g", "o", "o", "d">>, "high") } :
       UploadBegin(p, generate_short_code(1), studentName, answer[1], answer[2], grade)
  \/ \E p \in Procs : UploadFinish(p)

SpecUploadRace == InitReview /\ [][NextUploadRace]_vars

\* C29: however two concurrent requests of upload_assignment_file for one
\* link and one student name interleave, ocr_results holds at most one row
\* for that link and student
C29_OneSubmissionPerLinkAndStudent ==
  \A i, j \in DOMAIN ocrResults :
    i < j =>
      ~ ( /\ ocrResults[i].student_name = ocrResults[j].student_name
          /\ \E seed \in 1..NumSeeds :
               /\ SubmittedThrough(ocrResults[i], generate_short_code(seed))
               /\ SubmittedThrough(ocrResults[j], generate_short_code(seed)) )

\* two workers have both passed the duplicate query with the same link and
\* the same student name and neither has inserted its row
C29_BothPassedDuplicateQuery ==
  /\ \A p \in Procs : cr[p].pc = "store"
  /\ \A p, q \in Procs :
       /\ cr[p].short_code = cr[q].short_code
       /\ cr[p].studentName = cr[q].studentName
  /\ ocrResults = <<>>

\* both of them have inserted their row
C29_BothStored ==
  /\ Len(ocrResults) = 2
  /\ ocrResults[1].student_name = ocrResults[2].student_name
  /\ AllIdle

====
